---- MODULE Spec2Model ----
(***************************************************************************)
(* The Linear MCP server. Cursor pagination (utils/pagination): the        *)
(* Paginator class and the free function fetchAllPages, driven by one      *)
(* owner that makes its calls one at a time against a paginated backend.   *)
(* Resource addressing: the resources createServer registers, the router   *)
(* that resolves and lists them, and the `cycles` listing's fan-out.       *)
(***************************************************************************)
EXTENDS Integers, Sequences, FiniteSets, TLC

\* ---------------------------------------------------------------- bounds
\* Page sizes the Paginator is constructed with: 1..MaxFirst.
MaxFirst == 2
\* A backend page holds 0..MaxNodes nodes (short, full and over-full pages).
MaxNodes == 2
\* Backend requests one fetchAll / fetchAllPages call may issue.
MaxRequests == 4

\* A concrete URI has 1..MaxSegments path segments after `linear://`.
MaxSegments == 3
\* The teams of the workspace: 0..MaxTeams.
MaxTeams == 3
\* The cycles of a team: 0..MaxCycles, or one more than a backend page.
MaxCycles == 2
\* The issues one addIssuesToCycle call is given: 0..MaxIssues.
MaxIssues == 3
\* SSE connections opened over the run.
MaxSessions == 3

\* ------------------------------------------------------------ JS values
Undefined == "<undefined>"
Null == "<null>"
EmptyString == ""
\* Cursors the backend hands out.
Cursors == {"c1", "c2"}

\* `!x` of JavaScript on a string | null | undefined value.
Falsy(x) == x \in {Undefined, Null, EmptyString}

\* `options.first || 50`: the page size used when none (or 0) is given.
DefaultFirst == 50

\* --------------------------------------------------------------- pages
\* pageInfo?: absent, or { hasNextPage, endCursor: string | null }, where
\* the backend's data may also leave endCursor out.
NoPageInfo == [absent |-> TRUE]
PageInfos ==
  {NoPageInfo} \cup
  [hasNextPage : BOOLEAN, endCursor : Cursors \cup {Null, EmptyString, Undefined}]

\* The n nodes the backend serves for a cursor: each node is identified by
\* the cursor it follows and its position in the page.
NodesOf(after, n) == [i \in 1..n |-> <<after, i>>]

\* PaginatedResult<T> values the backend may answer a request for `after`.
Pages(after) ==
  {[nodes |-> NodesOf(after, n), pageInfo |-> pi] :
     n \in 0..MaxNodes, pi \in PageInfos}

\* The `{ nodes: [] }` page nextPage returns once exhausted.
EmptyPage == [nodes |-> <<>>, pageInfo |-> NoPageInfo]

\* `result.pageInfo?.endCursor`: the cursor a page hands on.
EndCursorOf(page) ==
  IF page.pageInfo = NoPageInfo THEN Undefined ELSE page.pageInfo.endCursor

\* No page has been received since the Paginator was constructed or reset.
NoPageYet == "<no page yet>"

VARIABLES
  fetchPage,      \* Paginator.fetchPage: the page-fetch operation it was given
  first,          \* Paginator.first
  currentCursor,  \* Paginator.currentCursor (Undefined = start)
  hasMore,        \* Paginator.hasMore
  backend,        \* the backend's answers, by the cursor requested
  inflight,       \* the request the backend has yet to answer (<<>> if none)
  pc,             \* where the owner's current call is suspended
  allNodes,       \* fetchAll / fetchAllPages: the local allNodes
  locals,         \* fetchAllPages: its locals first, after, hasNextPage
  call,           \* the owner's call in progress, or the last one it made
  runs,           \* per loop, its first completed call from the beginning
  lastEnd,        \* endCursor of the last page received since construction
                  \* or reset (NoPageYet before the first)
  request,        \* the resolve / list request the server is handling
  invoked,        \* the read / list operations the router has invoked for it
  backendCalls,   \* the LinearClient calls made for it
  fan,            \* the `cycles` list operation: its fan-out over the teams
  concurrent,     \* a nextPage() call made on the Paginator by a second caller
  assigned,       \* LinearClient.getIssuesAssignedToUser: the call under way
  tool,           \* the tool call under way (addIssuesToCycle, searchLinear)
  transports,     \* index.ts, HTTP mode: `transports`, sessionId -> transport
  connections,    \* the SSE connections opened so far, and those closed since
  post            \* the last POST /messages request and what became of it

vars == <<fetchPage, first, currentCursor, hasMore, backend, inflight, pc,
          allNodes, locals, call, runs, lastEnd,
          request, invoked, backendCalls, fan,
          concurrent, assigned, tool, transports, connections, post>>

\* HTTP mode: the session table and its connections.
http == <<transports, connections, post>>

\* What lies beyond the owner's Paginator and the resource router.
elsewhere == <<concurrent, assigned, tool, http>>

\* The resource side of the server, which the Paginator never touches.
server == <<request, invoked, backendCalls, fan>>

\* The pagination side, which the resource handlers modelled never touch.
pagination == <<fetchPage, first, currentCursor, hasMore, backend, inflight,
                pc, allNodes, locals, call, runs, lastEnd>>

paginator == <<fetchPage, first, currentCursor, hasMore>>

\* ------------------------------------------------------ the code's logic
\* `!result.pageInfo || !result.pageInfo.hasNextPage || !result.pageInfo.endCursor`
NoNextPage(page) ==
  \/ page.pageInfo = NoPageInfo
  \/ ~page.pageInfo.hasNextPage
  \/ Falsy(page.pageInfo.endCursor)

\* `result.nodes.length < first`
ShortPage(page, f) == Len(page.nodes) < f

\* Mutant: the short-page safety check is missing.
NextPageUpdate_NoShortPageCheck(cursor, more, f, page) ==
  IF NoNextPage(page)
  THEN [currentCursor |-> cursor, hasMore |-> FALSE]
  ELSE [currentCursor |-> page.pageInfo.endCursor, hasMore |-> more]

\* Mutant: only the hasNextPage flag is looked at, not the endCursor.
NextPageUpdate_TrustsHasNextPage(cursor, more, f, page) ==
  LET afterInfo ==
        IF page.pageInfo = NoPageInfo \/ ~page.pageInfo.hasNextPage
        THEN [currentCursor |-> cursor, hasMore |-> FALSE]
        ELSE [currentCursor |-> page.pageInfo.endCursor, hasMore |-> more]
  IN IF ShortPage(page, f)
     THEN [afterInfo EXCEPT !.hasMore = FALSE]
     ELSE afterInfo

\* Mutant: the short-page check comes first and the cursor is advanced only
\* when the Paginator goes on.
NextPageUpdate_ShortPageFirst(cursor, more, f, page) ==
  IF ShortPage(page, f) \/ NoNextPage(page)
  THEN [currentCursor |-> cursor, hasMore |-> FALSE]
  ELSE [currentCursor |-> page.pageInfo.endCursor, hasMore |-> more]

\* Mutant: the cursor is never advanced.
NextPageUpdate_KeepsCursor(cursor, more, f, page) ==
  [currentCursor |-> cursor,
   hasMore |-> more /\ ~NoNextPage(page) /\ ~ShortPage(page, f)]

\* Paginator.nextPage, "Update paginator state": the cursor and flag after
\* `page` was received in state (cursor, more).
NextPageUpdate(cursor, more, f, page) ==
  LET afterInfo ==
        IF NoNextPage(page)
        THEN [currentCursor |-> cursor, hasMore |-> FALSE]
        ELSE [currentCursor |-> page.pageInfo.endCursor, hasMore |-> more]
  IN IF ShortPage(page, f)
     THEN [afterInfo EXCEPT !.hasMore = FALSE]
     ELSE afterInfo

\* Mutant: fetchAllPages without the short-page safety check.
FetchAllPagesUpdate_NoShortPageCheck(after, hasNext, f, page) ==
  IF NoNextPage(page)
  THEN [after |-> after, hasNextPage |-> FALSE]
  ELSE [after |-> page.pageInfo.endCursor, hasNextPage |-> hasNext]

\* fetchAllPages, the same update on its locals after and hasNextPage.
FetchAllPagesUpdate(after, hasNext, f, page) ==
  LET afterInfo ==
        IF NoNextPage(page)
        THEN [after |-> after, hasNextPage |-> FALSE]
        ELSE [after |-> page.pageInfo.endCursor, hasNextPage |-> hasNext]
  IN IF ShortPage(page, f)
     THEN [afterInfo EXCEPT !.hasNextPage = FALSE]
     ELSE afterInfo

\* Mutant: the new page is put in front.
Concat_Prepends(acc, nodes) == nodes \o acc

\* `[...allNodes, ...result.nodes]`
Concat(acc, nodes) == acc \o nodes

\* `options.first || 50`, 0 standing for a page size that is absent or zero.
OrDefault(optFirst) == IF optFirst = 0 THEN DefaultFirst ELSE optFirst

\* Mutant: the constructor ignores the page size it is given.
ParameterOrDefault_Ignored(given) == DefaultFirst

\* `first: number = 50`: the default parameter, used when the arguments
\* after fetchPage, `given`, hold no page size.
ParameterOrDefault(given) ==
  IF given = <<>> THEN DefaultFirst ELSE given[1]

\* The failures a backend request may end in.
Failures == {"BackendError: timeout", "BackendError: malformed response"}

\* ----------------------------------------------------------- the backend
\* `{ first, after }`
Request(f, after) == [first |-> f, after |-> after]

\* The backend is deterministic: its answer to a cursor is fixed the first
\* time the cursor is requested and repeated ever after.
Answers(req) ==
  IF req.after \in DOMAIN backend
  THEN {backend[req.after]}
  ELSE Pages(req.after)

\* The backend answers the request in flight with `page`.
Answer(page) ==
  /\ page \in Answers(inflight[1])
  /\ backend' = [k \in DOMAIN backend \cup {inflight[1].after} |->
                   IF k = inflight[1].after THEN page ELSE backend[k]]
  /\ inflight' = <<>>

\* ------------------------------------------------------- the owner's call
\* The Paginator as a call finds it.
Snapshot ==
  [fetchPage |-> fetchPage, first |-> first, currentCursor |-> currentCursor,
   hasMore |-> hasMore]

\* A call the owner begins: what it found (the constructor: what it was
\* given), where a fetch-all call enters the sequence ("call" for the other
\* calls), and the requests it has issued.
Begin(op, found, entry) ==
  [op |-> op, pre |-> found, entry |-> entry, requests |-> <<>>,
   done |-> FALSE, threw |-> FALSE, value |-> Undefined]

Sent(c, req) == [c EXCEPT !.requests = Append(@, req)]

Returned(c, value) == [c EXCEPT !.done = TRUE, !.value = value]

\* The call ended by throwing `failure` to the owner.
Thrown(c, failure) ==
  [c EXCEPT !.done = TRUE, !.threw = TRUE, !.value = failure]

\* Where fetchAll() enters the sequence: on a Paginator just constructed,
\* just reset, or used since.
Entry == IF call.op \in {"constructor", "reset"} THEN call.op ELSE "used"

\* The call started from the beginning of the sequence: on a Paginator
\* just constructed or reset, or without an `after` option.
Fresh(c) == c.entry \in {"constructor", "reset", "no after"}

\* ------------------------------------------------------- resource templates
\* A URI template `linear://a/{b}/c` is the sequence of its path segments,
\* each a literal or a variable; a concrete URI is the sequence of its
\* segments, each a string (possibly empty, as in `linear://teams//states`).
L(text) == [kind |-> "literal", text |-> text]
V(name) == [kind |-> "variable", text |-> name]

\* server.resource(name, new ResourceTemplate(template, { list }), ...,
\* readCallback): list is TRUE for a list callback, FALSE for `undefined`.
Registration(name, template, list) ==
  [name |-> name, template |-> template, list |-> list]

\* registerIssueResources: its server.resource(...) calls, in order.
IssueResources == <<
  Registration("issue", <<L("issues"), V("id")>>, FALSE),
  Registration("issues", <<L("issues")>>, TRUE),
  Registration("teamIssues", <<L("teams"), V("teamId"), L("issues")>>, FALSE),
  Registration("stateIssues", <<L("states"), V("stateId"), L("issues")>>, FALSE),
  Registration("userIssues", <<L("users"), V("userId"), L("issues")>>, FALSE) >>

\* Mutant: `team` is registered with a list callback.
TeamResources_TeamListed == <<
  Registration("team", <<L("teams"), V("id")>>, TRUE),
  Registration("teams", <<L("teams")>>, TRUE),
  Registration("teamStates", <<L("teams"), V("teamId"), L("states")>>, FALSE),
  Registration("teamLabels", <<L("teams"), V("teamId"), L("labels")>>, FALSE),
  Registration("teamCycles", <<L("teams"), V("teamId"), L("cycles")>>, FALSE) >>

\* registerTeamResources: its server.resource(...) calls, in order.
TeamResources == <<
  Registration("team", <<L("teams"), V("id")>>, FALSE),
  Registration("teams", <<L("teams")>>, TRUE),
  Registration("teamStates", <<L("teams"), V("teamId"), L("states")>>, FALSE),
  Registration("teamLabels", <<L("teams"), V("teamId"), L("labels")>>, FALSE),
  Registration("teamCycles", <<L("teams"), V("teamId"), L("cycles")>>, FALSE) >>

\* registerProjectResources: its server.resource(...) calls, in order.
ProjectResources == <<
  Registration("project", <<L("projects"), V("id")>>, FALSE),
  Registration("projects", <<L("projects")>>, TRUE),
  Registration("teamProjects", <<L("teams"), V("teamId"), L("projects")>>, FALSE),
  Registration("projectIssues", <<L("projects"), V("projectId"), L("issues")>>, FALSE) >>

\* registerUserResources: its server.resource(...) calls, in order.
UserResources == <<
  Registration("user", <<L("users"), V("id")>>, FALSE),
  Registration("users", <<L("users")>>, TRUE),
  Registration("teamMembers", <<L("teams"), V("teamId"), L("members")>>, FALSE) >>

\* registerRoadmapResources: its server.resource(...) calls, in order.
RoadmapResources == <<
  Registration("roadmap", <<L("roadmaps"), V("id")>>, FALSE),
  Registration("roadmaps", <<L("roadmaps")>>, TRUE) >>

\* registerMilestoneResources: its server.resource(...) calls, in order.
MilestoneResources == <<
  Registration("milestone", <<L("milestones"), V("id")>>, FALSE),
  Registration("milestones", <<L("milestones")>>, TRUE),
  Registration("milestoneProjects", <<L("milestones"), V("milestoneId"), L("projects")>>, FALSE) >>

\* registerDocumentResources: its server.resource(...) calls, in order.
DocumentResources == <<
  Registration("document", <<L("documents"), V("id")>>, FALSE),
  Registration("documents", <<L("documents")>>, TRUE),
  Registration("teamDocuments", <<L("teams"), V("teamId"), L("documents")>>, FALSE),
  Registration("projectDocuments", <<L("projects"), V("projectId"), L("documents")>>, FALSE) >>

\* registerIntegrationResources: its server.resource(...) calls, in order.
IntegrationResources == <<
  Registration("integrations", <<L("integrations")>>, TRUE),
  Registration("integration", <<L("integrations"), V("id")>>, FALSE),
  Registration("integrationServices", <<L("integration-services")>>, FALSE) >>

\* registerOrganizationResources: its server.resource(...) calls, in order.
OrganizationResources == <<
  Registration("organization", <<L("organization")>>, FALSE),
  Registration("subscription", <<L("organization"), L("subscription")>>, FALSE),
  Registration("authServices", <<L("organization"), L("auth-services")>>, FALSE) >>

\* registerInitiativeResources: its server.resource(...) calls, in order.
InitiativeResources == <<
  Registration("initiative", <<L("initiatives"), V("id")>>, FALSE),
  Registration("initiatives", <<L("initiatives")>>, TRUE),
  Registration("initiativeProjects", <<L("initiatives"), V("initiativeId"), L("projects")>>, FALSE),
  Registration("projectInitiative", <<L("projects"), V("projectId"), L("initiative")>>, FALSE) >>

\* registerCycleResources: its server.resource(...) calls, in order.
CycleResources == <<
  Registration("cycle", <<L("cycles"), V("id")>>, FALSE),
  Registration("cycles", <<L("cycles")>>, TRUE),
  Registration("cycleIssues", <<L("cycles"), V("cycleId"), L("issues")>>, FALSE),
  Registration("activeCycles", <<L("cycles"), L("active")>>, FALSE) >>

\* registerCommentResources: its server.resource(...) calls, in order.
CommentResources == <<
  Registration("comment", <<L("comments"), V("id")>>, FALSE),
  Registration("issueComments", <<L("issues"), V("issueId"), L("comments")>>, FALSE),
  Registration("userComments", <<L("users"), V("userId"), L("comments")>>, FALSE),
  Registration("recentComments", <<L("comments"), L("recent")>>, FALSE) >>
\* createServer: "Register resources", the registrars in the order called.
Registrations ==
  IssueResources \o TeamResources \o ProjectResources \o UserResources \o
  RoadmapResources \o MilestoneResources \o DocumentResources \o
  IntegrationResources \o OrganizationResources \o InitiativeResources \o
  CycleResources \o CommentResources

\* The literal segments of the registered templates.
Literals ==
  UNION {{Registrations[i].template[j].text :
            j \in {k \in DOMAIN Registrations[i].template :
                     Registrations[i].template[k].kind = "literal"}} :
         i \in DOMAIN Registrations}

\* The segments of the URIs callers ask for: the registered literals, an
\* identifier, the name of a collection nobody registered, and nothing.
Segments == Literals \cup {"abc123", "widgets", EmptyString}

URIs == UNION {[1..n -> Segments] : n \in 1..MaxSegments}

\* ------------------------------------------------------------ the router
\* A literal segment matches the same segment; a variable segment takes
\* one non-empty segment.
SegmentMatches(t, u) ==
  IF t.kind = "literal" THEN u = t.text ELSE u # EmptyString

\* Mutant: a literal segment is matched like a variable.
Matches_IgnoresLiterals(template, uri) ==
  /\ Len(template) = Len(uri)
  /\ \A i \in DOMAIN template : uri[i] # EmptyString

\* The URI matches the template: as many segments, each one matching.
Matches(template, uri) ==
  /\ Len(template) = Len(uri)
  /\ \A i \in DOMAIN template : SegmentMatches(template[i], uri[i])

\* The path variables of a match, extracted by position.
Bind(template, uri) ==
  LET at == {i \in DOMAIN template : template[i].kind = "variable"}
  IN [name \in {template[i].text : i \in at} |->
        uri[CHOOSE i \in at : template[i].text = name]]

\* The first registered template the URI matches, 0 if none does.
FirstMatch(table, uri) ==
  LET ms == {i \in DOMAIN table : Matches(table[i].template, uri)}
  IN IF ms = {} THEN 0 ELSE CHOOSE i \in ms : \A j \in ms : i <= j

\* A read or list operation the router invokes, with its path variables.
Invocation(op, name, variables) ==
  [op |-> op, name |-> name, variables |-> variables]

\* A request to the server: resolve(uri) or list(collection), and how far
\* it is.
Requested(kind, target, status) ==
  [kind |-> kind, target |-> target, status |-> status, resources |-> <<>>,
   contents |-> <<>>, error |-> Undefined]

NoRequest == [kind |-> "none"]

\* ------------------------------------------------- the `cycles` listing
\* listTeams(): `const { first = 50, after } = options`
ListTeamsFirst == 50
\* listCycles(team.id): `const { first = 50, after } = options`
ListCyclesFirst == 50

\* The numbers of cycles a team may have.
CycleCounts == 0..MaxCycles \cup {ListCyclesFirst + 1}

\* this.client.teams({ first, after })
ListTeamsCall ==
  [method |-> "listTeams", team |-> 0, first |-> ListTeamsFirst,
   after |-> Undefined]

\* this.client.cycles({ first, after, filter: { team: { id: { eq } } } })
ListCyclesCall(t) ==
  [method |-> "listCycles", team |-> t, first |-> ListCyclesFirst,
   after |-> Undefined]

\* The backend's first page of the k cycles of team t: cycle j of team t is
\* <<t, j>>, and at most `f` of them come in one page.
CyclesPage(t, k, f) ==
  [nodes |-> [j \in 1..(IF k < f THEN k ELSE f) |-> <<t, j>>],
   pageInfo |-> [hasNextPage |-> k > f, endCursor |-> Null]]

\* `cycles.nodes.map(cycle => ({ uri, name, description }))`
Descriptors(t, nodes) ==
  [j \in DOMAIN nodes |->
     [uri |-> [collection |-> "cycles", id |-> nodes[j]], team |-> t]]

\* `cycles.nodes.map(cycle => `- ${cycle.name} (${team.name}, ...)`)`
Lines(t, nodes) ==
  [j \in DOMAIN nodes |-> [line |-> [cycle |-> nodes[j], team |-> t]]]

\* Mutant: the results are taken in the order the calls completed.
PromiseAll_InCompletionOrder(results, completed) ==
  [k \in DOMAIN completed |-> results[completed[k]]]

\* `await Promise.all(cyclesPromises)`: the results in the order of the
\* promises, whatever the order they settled in.
PromiseAll(results, completed) ==
  [i \in DOMAIN results |-> results[i]]

RECURSIVE Flat(_)
\* `.flat()`
Flat(arrays) ==
  IF arrays = <<>> THEN <<>>
  ELSE Flat(SubSeq(arrays, 1, Len(arrays) - 1)) \o arrays[Len(arrays)]

NoFanOut == [phase |-> "none"]

\* createServer: the registrars in the order it calls them.
Registrars ==
  <<IssueResources, TeamResources, ProjectResources, UserResources,
    RoadmapResources, MilestoneResources, DocumentResources,
    IntegrationResources, OrganizationResources, InitiativeResources,
    CycleResources, CommentResources>>

\* The table createServer would build calling the registrars in `order`,
\* registerCycleResources making its registrations in the order `within`.
TableIn(order, within) ==
  Flat([k \in DOMAIN order |->
          IF Registrars[order[k]] = CycleResources
          THEN [n \in DOMAIN within |-> CycleResources[within[n]]]
          ELSE Registrars[order[k]]])

\* Other orders of registration: two registrars exchanged, or the
\* registrations of registerCycleResources permuted.
Reorderings ==
  {TableIn([k \in DOMAIN Registrars |->
              IF k = i THEN j ELSE IF k = j THEN i ELSE k],
           [n \in DOMAIN CycleResources |-> n]) :
     i, j \in DOMAIN Registrars} \cup
  {TableIn([k \in DOMAIN Registrars |-> k], within) :
     within \in Permutations(DOMAIN CycleResources)}

\* ------------------------------------------------------- nothing under way
\* The second caller has made no call.
NoCall == Returned(Begin("none", <<>>, "call"), Undefined)

\* getIssuesAssignedToUser has not been called.
NotCalled == [pc |-> "idle"]

\* No tool has been called.
NoTool == [name |-> "none"]

\* No POST /messages has arrived.
NoPost == [status |-> "none"]

\* ------------------------------------------------------------------ Init
\* new Paginator(fetchPage, first) or new Paginator(fetchPage), with the
\* server at rest.
Init ==
  /\ fetchPage = "fetchPage"
  /\ \E given \in {<<>>} \cup {<<f>> : f \in 1..MaxFirst} :
       /\ first = ParameterOrDefault(given)
       /\ call = Returned(Begin("constructor",
                                [fetchPage |-> "fetchPage", first |-> given],
                                "call"),
                          Undefined)
  /\ currentCursor = Undefined
  /\ hasMore = TRUE
  /\ backend = <<>>
  /\ inflight = <<>>
  /\ pc = "idle"
  /\ allNodes = <<>>
  /\ locals = [first |-> 0, after |-> Undefined, hasNextPage |-> FALSE]
  /\ runs = [by \in {"fetchAll", "fetchAllPages"} |-> <<>>]
  /\ lastEnd = NoPageYet
  /\ request = NoRequest
  /\ invoked = <<>>
  /\ backendCalls = <<>>
  /\ fan = NoFanOut
  /\ concurrent = NoCall
  /\ assigned = NotCalled
  /\ tool = NoTool
  /\ transports = <<>>
  /\ connections = [opened |-> {}, closed |-> {}]
  /\ post = NoPost

\* --------------------------------------------------- Paginator.nextPage
\* Mutant: no early return once exhausted.
NextPageCall_AlwaysFetches ==
  /\ pc = "idle"
  /\ inflight' = <<Request(first, currentCursor)>>
  /\ call' = Sent(Begin("nextPage", Snapshot, "call"), Request(first, currentCursor))
  /\ pc' = "nextPage:await"
  /\ UNCHANGED <<paginator, backend, allNodes, locals, runs>>
  /\ UNCHANGED <<lastEnd, server, elsewhere>>

\* nextPage() up to its await: the exhausted early return, or the request.
NextPageCall ==
  /\ pc = "idle"
  /\ LET c == Begin("nextPage", Snapshot, "call") IN
     IF ~hasMore
     THEN /\ call' = Returned(c, EmptyPage)
          /\ UNCHANGED <<inflight, pc>>
     ELSE /\ inflight' = <<Request(first, currentCursor)>>
          /\ call' = Sent(c, Request(first, currentCursor))
          /\ pc' = "nextPage:await"
  /\ UNCHANGED <<paginator, backend, allNodes, locals, runs>>
  /\ UNCHANGED <<lastEnd, server, elsewhere>>

\* nextPage() from the backend's answer to its return, to the owner or into
\* fetchAll's `allNodes = [...allNodes, ...result.nodes]`.
NextPageResume ==
  /\ pc \in {"nextPage:await", "fetchAll:await"}
  /\ \E page \in Pages(inflight[1].after) :
       LET s == NextPageUpdate(currentCursor, hasMore, first, page) IN
       /\ Answer(page)
       /\ currentCursor' = s.currentCursor
       /\ hasMore' = s.hasMore
       /\ lastEnd' = EndCursorOf(page)
       /\ IF pc = "fetchAll:await"
          THEN /\ allNodes' = Concat(allNodes, page.nodes)
               /\ pc' = "fetchAll:loop"
               /\ UNCHANGED call
          ELSE /\ call' = Returned(call, page)
               /\ pc' = "idle"
               /\ UNCHANGED allNodes
  /\ UNCHANGED <<fetchPage, first, locals, runs, server, elsewhere>>

\* Mutant: hasNextPage() revives a Paginator that is not at the start.
HasNextPage_Refreshes ==
  /\ pc = "idle"
  /\ hasMore' = (hasMore \/ currentCursor # Undefined)
  /\ call' = Returned(Begin("hasNextPage", Snapshot, "call"), hasMore')
  /\ UNCHANGED <<fetchPage, first, currentCursor, backend, inflight, pc,
                 allNodes, locals, runs>>
  /\ UNCHANGED <<lastEnd, server, elsewhere>>

\* Paginator.hasNextPage
HasNextPage ==
  /\ pc = "idle"
  /\ call' = Returned(Begin("hasNextPage", Snapshot, "call"), hasMore)
  /\ UNCHANGED <<paginator, backend, inflight, pc, allNodes, locals, runs>>
  /\ UNCHANGED <<lastEnd, server, elsewhere>>

\* Mutant: reset() restores the flag and keeps the cursor.
Reset_KeepsCursor ==
  /\ pc = "idle"
  /\ hasMore' = TRUE
  /\ call' = Returned(Begin("reset", Snapshot, "call"), Undefined)
  /\ UNCHANGED <<fetchPage, first, currentCursor, backend, inflight, pc,
                 allNodes, locals, runs>>
  /\ lastEnd' = NoPageYet
  /\ UNCHANGED <<server, elsewhere>>

\* Mutant: reset() clears the cursor and keeps the flag.
Reset_KeepsFlag ==
  /\ pc = "idle"
  /\ currentCursor' = Undefined
  /\ call' = Returned(Begin("reset", Snapshot, "call"), Undefined)
  /\ UNCHANGED <<fetchPage, first, hasMore, backend, inflight, pc, allNodes,
                 locals, runs>>
  /\ lastEnd' = NoPageYet
  /\ UNCHANGED <<server, elsewhere>>

\* Paginator.reset
Reset ==
  /\ pc = "idle"
  /\ currentCursor' = Undefined
  /\ hasMore' = TRUE
  /\ call' = Returned(Begin("reset", Snapshot, "call"), Undefined)
  /\ UNCHANGED <<fetchPage, first, backend, inflight, pc, allNodes, locals, runs>>
  /\ lastEnd' = NoPageYet
  /\ UNCHANGED <<server, elsewhere>>

\* ------------------------------------------------------ a failing backend
\* The backend fails the request in flight: the promise fetchPage returned
\* is rejected, and nextPage() is still suspended at its await.
FetchPageRejects ==
  /\ pc \in {"nextPage:await", "fetchAll:await"}
  /\ \E e \in Failures : inflight' = <<inflight[1], [failure |-> e]>>
  /\ pc' = IF pc = "nextPage:await" THEN "nextPage:rejected"
                                     ELSE "fetchAll:rejected"
  /\ UNCHANGED <<paginator, backend, allNodes, locals, call, runs, lastEnd,
                 server, elsewhere>>

\* Mutant: nextPage() sends the failed request once more.
NextPageThrows_Retries ==
  /\ pc \in {"nextPage:rejected", "fetchAll:rejected"}
  /\ IF Len(call.requests) < MaxRequests
     THEN /\ inflight' = <<inflight[1]>>
          /\ call' = Sent(call, inflight[1])
          /\ pc' = IF pc = "nextPage:rejected" THEN "nextPage:await"
                                                ELSE "fetchAll:await"
          /\ UNCHANGED allNodes
     ELSE /\ call' = Thrown(call, inflight[2].failure)
          /\ inflight' = <<>>
          /\ allNodes' = <<>>
          /\ pc' = "idle"
  /\ UNCHANGED <<paginator, backend, locals, runs, lastEnd, server, elsewhere>>

\* Mutant: a failed request marks the Paginator exhausted.
NextPageThrows_Exhausts ==
  /\ pc \in {"nextPage:rejected", "fetchAll:rejected"}
  /\ call' = Thrown(call, inflight[2].failure)
  /\ inflight' = <<>>
  /\ allNodes' = <<>>
  /\ pc' = "idle"
  /\ hasMore' = FALSE
  /\ UNCHANGED <<fetchPage, first, currentCursor, backend, locals, runs,
                 lastEnd, server, elsewhere>>

\* nextPage() has no try/catch: the rejection leaves it at its await, before
\* any assignment, and leaves fetchAll() at its own await of nextPage(),
\* dropping the local allNodes.
NextPageThrows ==
  /\ pc \in {"nextPage:rejected", "fetchAll:rejected"}
  /\ call' = Thrown(call, inflight[2].failure)
  /\ inflight' = <<>>
  /\ allNodes' = <<>>
  /\ pc' = "idle"
  /\ UNCHANGED <<paginator, backend, locals, runs, lastEnd, server, elsewhere>>

\* ---------------------------------------------------- the fetch-all loops
\* What a finished call leaves on record: the page size, where it entered
\* the sequence, the requests it issued and the items it returned.
Finished(c, items) ==
  [first |-> c.pre.first, entry |-> c.entry, requests |-> c.requests,
   items |-> items]

\* A loop's call is recorded when it is the loop's first to have started
\* from the beginning of the sequence with the Paginator's page size.
Record(c, items) ==
  IF Fresh(c) /\ c.pre.first = first /\ runs[c.op] = <<>>
  THEN [runs EXCEPT ![c.op] = <<Finished(c, items)>>]
  ELSE runs

\* Mutant: fetchAll() starts over from the first page.
FetchAllCall_FromStart ==
  /\ pc = "idle"
  /\ allNodes' = <<>>
  /\ call' = Begin("fetchAll", Snapshot, Entry)
  /\ pc' = "fetchAll:loop"
  /\ currentCursor' = Undefined
  /\ hasMore' = TRUE
  /\ UNCHANGED <<fetchPage, first, backend, inflight, locals, runs>>
  /\ UNCHANGED <<lastEnd, server, elsewhere>>

\* Paginator.fetchAll: `let allNodes = []`.
FetchAllCall ==
  /\ pc = "idle"
  /\ allNodes' = <<>>
  /\ call' = Begin("fetchAll", Snapshot, Entry)
  /\ pc' = "fetchAll:loop"
  /\ UNCHANGED <<paginator, backend, inflight, locals, runs>>
  /\ UNCHANGED <<lastEnd, server, elsewhere>>

\* Mutant: fetchAll() fetches one page and returns.
FetchAllLoop_SinglePage ==
  /\ pc = "fetchAll:loop"
  /\ IF hasMore /\ call.requests = <<>>
     THEN /\ inflight' = <<Request(first, currentCursor)>>
          /\ call' = Sent(call, Request(first, currentCursor))
          /\ pc' = "fetchAll:await"
          /\ UNCHANGED <<allNodes, runs>>
     ELSE /\ call' = Returned(call, allNodes)
          /\ runs' = Record(call, allNodes)
          /\ allNodes' = <<>>
          /\ pc' = "idle"
          /\ UNCHANGED inflight
  /\ UNCHANGED <<paginator, backend, locals>>
  /\ UNCHANGED <<lastEnd, server, elsewhere>>

\* Paginator.fetchAll: `while (this.hasMore)`, calling nextPage() (which
\* sends its request) or returning allNodes.
FetchAllLoop ==
  /\ pc = "fetchAll:loop"
  /\ IF hasMore
     THEN /\ Len(call.requests) < MaxRequests
          /\ inflight' = <<Request(first, currentCursor)>>
          /\ call' = Sent(call, Request(first, currentCursor))
          /\ pc' = "fetchAll:await"
          /\ UNCHANGED <<allNodes, runs>>
     ELSE /\ call' = Returned(call, allNodes)
          /\ runs' = Record(call, allNodes)
          /\ allNodes' = <<>>
          /\ pc' = "idle"
          /\ UNCHANGED inflight
  /\ UNCHANGED <<paginator, backend, locals>>
  /\ UNCHANGED <<lastEnd, server, elsewhere>>

\* fetchAllPages(fetchPage, options): its locals before the loop. The owner
\* starts it at the beginning or where the Paginator stands.
FetchAllPagesCall ==
  /\ pc = "idle"
  /\ \E optFirst \in 0..MaxFirst, optAfter \in {Undefined, currentCursor} :
       /\ locals' = [first |-> OrDefault(optFirst), after |-> optAfter,
                     hasNextPage |-> TRUE]
       /\ call' = Begin("fetchAllPages",
                        [fetchPage |-> fetchPage, first |-> OrDefault(optFirst),
                         currentCursor |-> optAfter, hasMore |-> TRUE],
                        IF optAfter = Undefined THEN "no after" ELSE "after")
  /\ allNodes' = <<>>
  /\ pc' = "fetchAllPages:loop"
  /\ UNCHANGED <<paginator, backend, inflight, runs>>
  /\ UNCHANGED <<lastEnd, server, elsewhere>>

\* fetchAllPages: `while (hasNextPage)`, sending the request or returning.
FetchAllPagesLoop ==
  /\ pc = "fetchAllPages:loop"
  /\ IF locals.hasNextPage
     THEN /\ Len(call.requests) < MaxRequests
          /\ inflight' = <<Request(locals.first, locals.after)>>
          /\ call' = Sent(call, Request(locals.first, locals.after))
          /\ pc' = "fetchAllPages:await"
          /\ UNCHANGED <<allNodes, locals, runs>>
     ELSE /\ call' = Returned(call, allNodes)
          /\ runs' = Record(call, allNodes)
          /\ allNodes' = <<>>
          /\ locals' = [first |-> 0, after |-> Undefined, hasNextPage |-> FALSE]
          /\ pc' = "idle"
          /\ UNCHANGED inflight
  /\ UNCHANGED <<paginator, backend>>
  /\ UNCHANGED <<lastEnd, server, elsewhere>>

\* fetchAllPages: one loop body, from the backend's answer on.
FetchAllPagesResume ==
  /\ pc = "fetchAllPages:await"
  /\ \E page \in Pages(inflight[1].after) :
       LET s == FetchAllPagesUpdate(locals.after, locals.hasNextPage,
                                    locals.first, page) IN
       /\ Answer(page)
       /\ allNodes' = Concat(allNodes, page.nodes)
       /\ locals' = [locals EXCEPT !.after = s.after,
                                   !.hasNextPage = s.hasNextPage]
  /\ pc' = "fetchAllPages:loop"
  /\ UNCHANGED <<paginator, call, runs>>
  /\ UNCHANGED <<lastEnd, server, elsewhere>>

\* The Paginator under every sequence of its owner's method calls.
Next ==
  \/ NextPageCall
  \/ NextPageResume
  \/ HasNextPage
  \/ Reset
  \/ FetchAllCall
  \/ FetchAllLoop

Spec == Init /\ [][Next]_vars

\* The backend answers every request, and a call that can go on does.
FairSpec == Spec /\ WF_vars(NextPageResume) /\ WF_vars(FetchAllLoop)

\* The two fetch-all loops, fetchAll() and fetchAllPages, side by side on
\* the same backend.
LoopNext ==
  \/ FetchAllCall
  \/ FetchAllLoop
  \/ NextPageResume
  \/ Reset
  \/ FetchAllPagesCall
  \/ FetchAllPagesLoop
  \/ FetchAllPagesResume

LoopSpec == Init /\ [][LoopNext]_vars

\* The Paginator on a backend whose requests may fail.
FailureNext ==
  \/ NextPageCall
  \/ NextPageResume
  \/ HasNextPage
  \/ Reset
  \/ FetchAllCall
  \/ FetchAllLoop
  \/ FetchPageRejects
  \/ NextPageThrows

FailureSpec == Init /\ [][FailureNext]_vars

\* --------------------------------------------------- resolving and listing
\* resolve(uri): the first registered template that matches decides the
\* read operation; none is ResourceNotFound.
Resolve ==
  /\ request = NoRequest
  /\ \E uri \in URIs :
       LET i == FirstMatch(Registrations, uri) IN
       IF i = 0
       THEN /\ request' = Requested("resolve", uri, "ResourceNotFound")
            /\ invoked' = <<>>
       ELSE /\ request' = Requested("resolve", uri, "invoked")
            /\ invoked' = <<Invocation("read", Registrations[i].name,
                                       Bind(Registrations[i].template, uri))>>
  /\ UNCHANGED <<backendCalls, fan, pagination, elsewhere>>

\* list(collection), the collection named by its registration's template:
\* the registration's list operation, or ListingUnsupported without one.
List ==
  /\ request = NoRequest
  /\ \E i \in DOMAIN Registrations :
       IF ~Registrations[i].list
       THEN /\ request' = Requested("list", Registrations[i].template,
                                    "ListingUnsupported")
            /\ invoked' = <<>>
       ELSE /\ request' = Requested("list", Registrations[i].template,
                                    "invoked")
            /\ invoked' = <<Invocation("list", Registrations[i].name, <<>>)>>
  /\ UNCHANGED <<backendCalls, fan, pagination, elsewhere>>

\* The operation invoked is the list operation of `cycles`.
CyclesListInvoked == invoked = <<Invocation("list", "cycles", <<>>)>>

\* The operation invoked is the read operation of `cycles`, which fans out
\* over the teams as the list operation does.
CyclesReadInvoked == invoked = <<Invocation("read", "cycles", <<>>)>>

\* A read or list operation up to its first await: its call on linearClient.
OperationCall ==
  /\ request # NoRequest /\ request.status = "invoked"
  /\ ~CyclesListInvoked /\ ~CyclesReadInvoked
  /\ backendCalls' = <<[method |-> "linearClient", by |-> invoked[1].name]>>
  /\ request' = [request EXCEPT !.status = "awaiting"]
  /\ UNCHANGED <<invoked, fan, pagination, elsewhere>>

\* The operation returns its contents or resources.
OperationReturn ==
  /\ request # NoRequest /\ request.status = "awaiting"
  /\ ~CyclesListInvoked /\ ~CyclesReadInvoked
  /\ request' = [request EXCEPT !.status = "returned"]
  /\ UNCHANGED <<invoked, backendCalls, fan, pagination, elsewhere>>

\* `cycles` list and read: `const teams = await linearClient.listTeams()`.
CyclesListCall ==
  /\ request # NoRequest /\ request.status = "invoked"
  /\ CyclesListInvoked \/ CyclesReadInvoked
  /\ backendCalls' = <<ListTeamsCall>>
  /\ request' = [request EXCEPT !.status = "awaiting"]
  /\ fan' = [phase |-> "teams"]
  /\ UNCHANGED <<invoked, pagination, elsewhere>>

\* `teams.nodes.map(async team => ...)`: with the n teams of the answer,
\* every async function runs up to its await, so that the listCycles calls
\* are all sent, in team order, before any is answered.
ListTeamsResume ==
  /\ fan.phase = "teams"
  /\ \E n \in 0..MaxTeams :
       /\ backendCalls' = backendCalls \o [t \in 1..n |-> ListCyclesCall(t)]
       /\ fan' = [phase |-> "cycles", teams |-> n,
                  results |-> [t \in 1..n |-> <<>>],
                  cyclesOf |-> [t \in 1..n |-> 0],
                  completed |-> <<>>, failure |-> <<>>]
  /\ UNCHANGED <<request, invoked, pagination, elsewhere>>

\* One listCycles call is answered, in any order, for a team of k cycles:
\* `return cycles.nodes.map(...)` settles that team's promise.
ListCyclesResume ==
  /\ fan.phase = "cycles"
  /\ \E t \in 1..fan.teams, k \in CycleCounts :
       /\ \A i \in DOMAIN fan.completed : fan.completed[i] # t
       /\ fan' = [fan EXCEPT
                    !.results[t] =
                       IF CyclesReadInvoked
                       THEN Lines(t, CyclesPage(t, k, ListCyclesFirst).nodes)
                       ELSE Descriptors(t, CyclesPage(t, k, ListCyclesFirst).nodes),
                    !.cyclesOf[t] = k,
                    !.completed = Append(@, t)]
  /\ UNCHANGED <<request, invoked, backendCalls, pagination, elsewhere>>

\* Mutant: a team whose listCycles call fails counts as a team without
\* cycles.
ListCyclesRejects_SkipsTeam ==
  /\ fan.phase = "cycles"
  /\ \E t \in 1..fan.teams, e \in Failures :
       /\ \A i \in DOMAIN fan.completed : fan.completed[i] # t
       /\ fan' = [fan EXCEPT !.completed = Append(@, t),
                             !.failure = <<[call |-> ListCyclesCall(t),
                                            error |-> e]>>]
  /\ UNCHANGED <<request, invoked, backendCalls, pagination, elsewhere>>

\* listTeams() rejects: the operation has no try/catch and rejects with the
\* same error.
ListTeamsRejects ==
  /\ fan.phase = "teams"
  /\ \E e \in Failures :
       /\ fan' = [phase |-> "failed", teams |-> 0, results |-> <<>>,
                  cyclesOf |-> <<>>, completed |-> <<>>,
                  failure |-> <<[call |-> ListTeamsCall, error |-> e]>>]
       /\ request' = [request EXCEPT !.status = "failed", !.error = e]
  /\ UNCHANGED <<invoked, backendCalls, pagination, elsewhere>>

\* One listCycles call rejects: so does that team's promise, Promise.all
\* with it and, without a try/catch, the operation, while the other calls
\* are still pending.
ListCyclesRejects ==
  /\ fan.phase = "cycles"
  /\ \E t \in 1..fan.teams, e \in Failures :
       /\ \A i \in DOMAIN fan.completed : fan.completed[i] # t
       /\ fan' = [fan EXCEPT !.phase = "failed",
                             !.failure = <<[call |-> ListCyclesCall(t),
                                            error |-> e]>>]
       /\ request' = [request EXCEPT !.status = "failed", !.error = e]
  /\ UNCHANGED <<invoked, backendCalls, pagination, elsewhere>>

\* `(await Promise.all(cyclesPromises)).flat()`, joined into the text of the
\* contents the read operation returns.
CyclesReadReturn ==
  /\ fan.phase = "cycles"
  /\ CyclesReadInvoked
  /\ Len(fan.completed) = fan.teams
  /\ request' = [request EXCEPT
                   !.status = "returned",
                   !.contents =
                      <<[uri |-> request.target,
                         text |-> Flat(PromiseAll(fan.results, fan.completed))]>>]
  /\ fan' = [fan EXCEPT !.phase = "read"]
  /\ UNCHANGED <<invoked, backendCalls, pagination, elsewhere>>

\* `(await Promise.all(cyclesPromises)).flat()`, returned as the resources.
CyclesListReturn ==
  /\ fan.phase = "cycles"
  /\ CyclesListInvoked
  /\ Len(fan.completed) = fan.teams
  /\ request' = [request EXCEPT
                   !.status = "returned",
                   !.resources = Flat(PromiseAll(fan.results, fan.completed))]
  /\ fan' = [fan EXCEPT !.phase = "done"]
  /\ UNCHANGED <<invoked, backendCalls, pagination, elsewhere>>

\* The request is over and the server takes the next one.
Finish ==
  /\ request # NoRequest
  /\ request.status \in {"ResourceNotFound", "ListingUnsupported", "returned",
                        "failed"}
  /\ request' = NoRequest
  /\ invoked' = <<>>
  /\ backendCalls' = <<>>
  /\ fan' = NoFanOut
  /\ UNCHANGED <<pagination, elsewhere>>

\* The server under every sequence of resolve and list requests, one at a
\* time.
RouterNext ==
  \/ Resolve
  \/ List
  \/ OperationCall
  \/ OperationReturn
  \/ CyclesListCall
  \/ ListTeamsResume
  \/ ListCyclesResume
  \/ CyclesListReturn
  \/ CyclesReadReturn
  \/ ListTeamsRejects
  \/ ListCyclesRejects
  \/ Finish

\* The server at rest, its pagination utilities unused.
RouterInit == Init /\ call.pre.first = <<>>

RouterSpec == RouterInit /\ [][RouterNext]_vars

\* ------------------------------------------- a Paginator with two callers
\* The Paginator carries no synchronization: a second caller may call
\* nextPage() whatever the owner's call is doing. Its call runs the same
\* code: up to the await here, its request kept in its own record.
ConcurrentNextPageCall ==
  /\ concurrent.done
  /\ LET c == Begin("nextPage", Snapshot, "call") IN
     IF ~hasMore
     THEN concurrent' = Returned(c, EmptyPage)
     ELSE concurrent' = Sent(c, Request(first, currentCursor))
  /\ UNCHANGED <<pagination, server, assigned, tool, http>>

\* Mutant: a page another call has received already is not returned again.
ConcurrentNextPageResume_DropsDuplicate ==
  /\ ~concurrent.done
  /\ LET req == concurrent.requests[1] IN
     IF req.after \in DOMAIN backend
     THEN /\ concurrent' = Returned(concurrent, EmptyPage)
          /\ UNCHANGED <<currentCursor, hasMore, backend, lastEnd>>
     ELSE \E page \in Answers(req) :
            LET s == NextPageUpdate(currentCursor, hasMore, first, page) IN
            /\ backend' = [k \in DOMAIN backend \cup {req.after} |->
                             IF k = req.after THEN page ELSE backend[k]]
            /\ currentCursor' = s.currentCursor
            /\ hasMore' = s.hasMore
            /\ lastEnd' = EndCursorOf(page)
            /\ concurrent' = Returned(concurrent, page)
  /\ UNCHANGED <<fetchPage, first, inflight, pc, allNodes, locals, call, runs,
                 server, assigned, tool, http>>

\* The second caller's nextPage() from the backend's answer to its return:
\* the update is applied to the fields as they are by then.
ConcurrentNextPageResume ==
  /\ ~concurrent.done
  /\ LET req == concurrent.requests[1] IN
     \E page \in Answers(req) :
       LET s == NextPageUpdate(currentCursor, hasMore, first, page) IN
       /\ backend' = [k \in DOMAIN backend \cup {req.after} |->
                        IF k = req.after THEN page ELSE backend[k]]
       /\ currentCursor' = s.currentCursor
       /\ hasMore' = s.hasMore
       /\ lastEnd' = EndCursorOf(page)
       /\ concurrent' = Returned(concurrent, page)
  /\ UNCHANGED <<fetchPage, first, inflight, pc, allNodes, locals, call, runs,
                 server, assigned, tool, http>>

\* The Paginator shared by two callers, under every interleaving of their
\* nextPage() calls and reset().
OverlapNext ==
  \/ NextPageCall
  \/ NextPageResume
  \/ ConcurrentNextPageCall
  \/ ConcurrentNextPageResume
  \/ Reset

OverlapSpec == Init /\ [][OverlapNext]_vars

\* ------------------------------------ LinearClient.getIssuesAssignedToUser
\* `const { first = 50, after, includeArchived = false, teamId } = options`
AssignedFirst == 50

\* The users issues are asked for.
UserIds == {"user1"}

\* The options a caller passes, each given or left out (<<>>: left out).
AssignedOptions ==
  [first : {<<>>} \cup {<<f>> : f \in 1..MaxFirst},
   after : {Undefined, "c1"},
   includeArchived : {<<>>, <<TRUE>>, <<FALSE>>},
   teamId : {Undefined, EmptyString, "team1"}]

\* The destructuring of `options`, with its defaults.
Destructured(options) ==
  [first |-> IF options.first = <<>> THEN AssignedFirst ELSE options.first[1],
   after |-> options.after,
   includeArchived |-> IF options.includeArchived = <<>> THEN FALSE
                       ELSE options.includeArchived[1],
   teamId |-> options.teamId]

\* The filter of the raw query: assignee, `${teamId ? team : ''}`,
\* `${!includeArchived ? state.type neq "canceled" : ''}`.
QueryFilter(userId, o) ==
  [assignee |-> userId,
   team |-> IF ~Falsy(o.teamId) THEN o.teamId ELSE Undefined,
   notCanceled |-> ~o.includeArchived]

\* rawClient.client.rawRequest(query, { userId, first, after, teamId })
RawRequest(userId, o) ==
  [api |-> "rawRequest", first |-> o.first, after |-> o.after,
   filter |-> QueryFilter(userId, o)]

\* Mutant: the fallback leaves the state filter out.
FallbackFilter_IgnoresArchived(userId, o) ==
  [assignee |-> userId,
   team |-> IF ~Falsy(o.teamId) THEN o.teamId ELSE Undefined,
   notCanceled |-> FALSE]

\* The filter the catch block builds: assignee, `if (teamId) filter.team`,
\* `if (!includeArchived) filter.state`.
FallbackFilter(userId, o) ==
  [assignee |-> userId,
   team |-> IF ~Falsy(o.teamId) THEN o.teamId ELSE Undefined,
   notCanceled |-> ~o.includeArchived]

\* rawClient.issues({ first, after, filter })
IssuesRequest(userId, o) ==
  [api |-> "issues", first |-> o.first, after |-> o.after,
   filter |-> FallbackFilter(userId, o)]

\* The pages of issues the backend may answer with.
IssuePages ==
  {[nodes |-> NodesOf("issues", n),
    pageInfo |-> [hasNextPage |-> FALSE, endCursor |-> Null]] :
     n \in 0..MaxNodes}

\* What rawRequest may resolve to: data with the issues connection (<<page>>)
\* or without it (<<>>), on which `result.data.issues.nodes` throws.
RawResults ==
  {[data |-> [issues |-> <<page>>]] : page \in IssuePages} \cup
  {[data |-> [issues |-> <<>>]]}

TypeError == "TypeError: Cannot read properties of undefined"

\* getIssuesAssignedToUser(userId, options) up to its await of rawRequest.
GetIssuesAssignedToUserCall ==
  /\ assigned.pc \in {"idle", "returned", "thrown"}
  /\ \E userId \in UserIds, options \in AssignedOptions :
       LET o == Destructured(options) IN
       assigned' = [pc |-> "primary", userId |-> userId, options |-> o,
                    sent |-> <<RawRequest(userId, o)>>, log |-> <<>>,
                    primary |-> Undefined, fallback |-> Undefined,
                    value |-> Undefined]
  /\ UNCHANGED <<pagination, server, concurrent, tool, http>>

\* The catch block: console.error, then the SDK query, whose promise is
\* returned.
Caught(error) ==
  [assigned EXCEPT
     !.pc = "fallback",
     !.primary = error,
     !.log = Append(@, [call |-> "console.error",
                        text |-> "Error querying user assignments:",
                        error |-> error]),
     !.sent = Append(@, IssuesRequest(assigned.userId, assigned.options))]

\* rawRequest resolves: the result is reshaped and returned, or reading it
\* throws inside the try.
RawRequestResolves ==
  /\ assigned.pc = "primary"
  /\ \E result \in RawResults :
       IF result.data.issues = <<>>
       THEN assigned' = Caught(TypeError)
       ELSE assigned' = [assigned EXCEPT
                           !.pc = "returned",
                           !.primary = "resolved",
                           !.value = [nodes |-> result.data.issues[1].nodes,
                                      pageInfo |-> result.data.issues[1].pageInfo]]
  /\ UNCHANGED <<pagination, server, concurrent, tool, http>>

\* rawRequest rejects.
RawRequestRejects ==
  /\ assigned.pc = "primary"
  /\ \E e \in Failures : assigned' = Caught(e)
  /\ UNCHANGED <<pagination, server, concurrent, tool, http>>

\* The SDK query resolves: its page is the result of the call.
IssuesResolves ==
  /\ assigned.pc = "fallback"
  /\ \E page \in IssuePages :
       assigned' = [assigned EXCEPT !.pc = "returned",
                                    !.fallback = "resolved",
                                    !.value = page]
  /\ UNCHANGED <<pagination, server, concurrent, tool, http>>

\* The SDK query rejects: so does the promise the call returned.
IssuesRejects ==
  /\ assigned.pc = "fallback"
  /\ \E e \in Failures :
       assigned' = [assigned EXCEPT !.pc = "thrown", !.fallback = e,
                                    !.value = e]
  /\ UNCHANGED <<pagination, server, concurrent, tool, http>>

AssignedNext ==
  \/ GetIssuesAssignedToUserCall
  \/ RawRequestResolves
  \/ RawRequestRejects
  \/ IssuesResolves
  \/ IssuesRejects

\* getIssuesAssignedToUser under every outcome of its two queries.
AssignedSpec == Init /\ [][AssignedNext]_vars

\* ------------------------------------------------- tool: addIssuesToCycle
\* `{ content: [{ type: "text", text }] }`, with `isError: true` or without.
ToolResult(text, isError) ==
  [content |-> <<[type |-> "text", text |-> text]>>, isError |-> isError]

\* `Added ${issueIds.length} issues to the cycle`
AddedText(issueIds) == [added |-> Len(issueIds), to |-> "the cycle"]

\* `Error: ${error.message}`
ErrorText(error) == [prefix |-> "Error: ", message |-> error]

\* The outcomes of the updates that have settled, in the order they did.
Outcomes(t) == {t.settled[k].outcome : k \in DOMAIN t.settled}

\* The tool call is over: its result is out and no update is pending.
ToolIdle ==
  \/ tool = NoTool
  \/ /\ tool.name = "addIssuesToCycle"
     /\ tool.result # <<>> /\ Len(tool.settled) = Len(tool.issueIds)
  \/ /\ tool.name = "searchLinear"
     /\ tool.result # <<>>

\* addIssuesToCycle({ cycleId, issueIds }): `issueIds.map(issueId =>
\* rawClient.updateIssue(issueId, { cycleId }))` sends every update, then
\* `await Promise.all(updatePromises)`, which an empty array resolves.
AddIssuesToCycleCall ==
  /\ ToolIdle
  /\ \E n \in 0..MaxIssues :
       LET issueIds == [i \in 1..n |-> i] IN
       tool' = [name |-> "addIssuesToCycle", cycleId |-> "cycle1",
                issueIds |-> issueIds,
                sent |-> [i \in 1..n |->
                            [method |-> "updateIssue", issueId |-> issueIds[i],
                             input |-> [cycleId |-> "cycle1"]]],
                settled |-> <<>>,
                result |-> IF n = 0
                           THEN <<ToolResult(AddedText(issueIds), FALSE)>>
                           ELSE <<>>]
  /\ UNCHANGED <<pagination, server, concurrent, assigned, http>>

\* The updates of the call that have not settled.
PendingUpdates ==
  {i \in DOMAIN tool.issueIds :
     \A k \in DOMAIN tool.settled : tool.settled[k].issue # i}

\* One update resolves; with the last one Promise.all resolves and the
\* tool reports the issues added.
UpdateIssueResolves ==
  /\ tool.name = "addIssuesToCycle"
  /\ \E i \in PendingUpdates :
       LET settled == Append(tool.settled, [issue |-> i, outcome |-> "resolved"])
       IN tool' = [tool EXCEPT
                     !.settled = settled,
                     !.result =
                        IF /\ tool.result = <<>>
                           /\ Len(settled) = Len(tool.issueIds)
                        THEN <<ToolResult(AddedText(tool.issueIds), FALSE)>>
                        ELSE @]
  /\ UNCHANGED <<pagination, server, concurrent, assigned, http>>

\* Mutant: the updates are awaited whatever their outcome, as with
\* Promise.allSettled.
UpdateIssueRejects_Settles ==
  /\ tool.name = "addIssuesToCycle"
  /\ \E i \in PendingUpdates, e \in Failures :
       LET settled == Append(tool.settled, [issue |-> i, outcome |-> e])
       IN tool' = [tool EXCEPT
                     !.settled = settled,
                     !.result =
                        IF /\ tool.result = <<>>
                           /\ Len(settled) = Len(tool.issueIds)
                        THEN <<ToolResult(AddedText(tool.issueIds), FALSE)>>
                        ELSE @]
  /\ UNCHANGED <<pagination, server, concurrent, assigned, http>>

\* One update rejects: the first to do so rejects Promise.all, and the catch
\* block returns the error result while the other updates are still
\* pending; a later rejection changes nothing.
UpdateIssueRejects ==
  /\ tool.name = "addIssuesToCycle"
  /\ \E i \in PendingUpdates, e \in Failures :
       tool' = [tool EXCEPT
                  !.settled = Append(@, [issue |-> i, outcome |-> e]),
                  !.result = IF tool.result = <<>>
                             THEN <<ToolResult(ErrorText(e), TRUE)>>
                             ELSE @]
  /\ UNCHANGED <<pagination, server, concurrent, assigned, http>>

CycleToolNext ==
  \/ AddIssuesToCycleCall
  \/ UpdateIssueResolves
  \/ UpdateIssueRejects

\* addIssuesToCycle under every order and outcome of its updates.
CycleToolSpec == Init /\ [][CycleToolNext]_vars

\* ----------------------------------------------------- tool: searchLinear
\* `async ({ query, scope = "all", first = 20 })`
SearchFirst == 20

\* The scopes, in the order the handler searches them.
ScopeOrder == <<"issues", "projects", "users">>

\* `scope === "all" || scope === s`, for each of the three blocks in turn.
Searches(scope) ==
  SelectSeq(ScopeOrder, LAMBDA s : scope = "all" \/ scope = s)

\* The backend call of a scope: searchIssues(query, { first }), or
\* rawClient.projects / users({ filter: { name: ... }, first }).
ScopeCall(s, query, f) ==
  [method |-> IF s = "issues" THEN "searchIssues" ELSE s,
   query |-> query, first |-> f]

\* `## Issues (${n} results)`, and the list of lines pushed after it.
HeaderLine(s, n) == [header |-> s, results |-> n]
ListLine(s, n) == [list |-> s, lines |-> n]

\* "Error searching issues: " + error.message
ErrorLine(s, error) == [errorSearching |-> s, message |-> error]

\* `No results found for "${query}" in ${scope} scope.`
NoResultsText(query, scope) == [noResultsFor |-> query, scope |-> scope]

\* results.join('\n\n')
Joined(results) == [joined |-> results, separator |-> "\n\n"]

\* Mutant: a failing scope ends the search with an error result.
Proceed_AbortsOnFailure(t) ==
  IF \E k \in DOMAIN t.outcomes : t.outcomes[k].outcome \in Failures
  THEN [t EXCEPT
          !.stage = "done",
          !.result = <<ToolResult(
                         ErrorText(t.outcomes[Len(t.outcomes)].outcome), TRUE)>>]
  ELSE IF t.at < Len(Searches(t.scope))
  THEN [t EXCEPT
          !.at = @ + 1,
          !.stage = "search",
          !.calls = Append(@, ScopeCall(Searches(t.scope)[t.at + 1],
                                        t.query, t.first))]
  ELSE [t EXCEPT
          !.stage = "done",
          !.result = <<IF t.results = <<>>
                       THEN ToolResult(NoResultsText(t.query, t.scope), FALSE)
                       ELSE ToolResult(Joined(t.results), FALSE)>>]

\* The handler past one scope's block: it enters the next block that the
\* scope selects, up to its await, or returns what it has collected.
Proceed(t) ==
  IF t.at < Len(Searches(t.scope))
  THEN [t EXCEPT
          !.at = @ + 1,
          !.stage = "search",
          !.calls = Append(@, ScopeCall(Searches(t.scope)[t.at + 1],
                                        t.query, t.first))]
  ELSE [t EXCEPT
          !.stage = "done",
          !.result = <<IF t.results = <<>>
                       THEN ToolResult(NoResultsText(t.query, t.scope), FALSE)
                       ELSE ToolResult(Joined(t.results), FALSE)>>]

\* The scope whose block the handler is in.
Searching == Searches(tool.scope)[tool.at]

\* searchLinear({ query, scope, first }) up to its first await.
SearchLinearCall ==
  /\ ToolIdle
  /\ \E scope \in {<<>>} \cup {<<s>> : s \in {"all", "issues", "projects", "users"}},
        f \in {<<>>} \cup {<<n>> : n \in 1..MaxFirst} :
       tool' = Proceed([name |-> "searchLinear", query |-> "query",
                        scope |-> IF scope = <<>> THEN "all" ELSE scope[1],
                        first |-> IF f = <<>> THEN SearchFirst ELSE f[1],
                        at |-> 0, stage |-> "start", results |-> <<>>,
                        calls |-> <<>>, outcomes |-> <<>>, hits |-> 0,
                        result |-> <<>>])
  /\ UNCHANGED <<pagination, server, concurrent, assigned, http>>

\* The scope's search resolves with n nodes: with none the block is over;
\* otherwise the header is pushed and then, for projects and users, the
\* list, while the issues block awaits the state of every issue.
SearchResolves ==
  /\ tool.name = "searchLinear" /\ tool.stage = "search"
  /\ \E n \in 0..MaxNodes :
       /\ n <= tool.first
       /\ LET done == [scope |-> Searching, outcome |-> "resolved", hits |-> n]
          IN
          IF n = 0
          THEN tool' = Proceed([tool EXCEPT !.outcomes = Append(@, done)])
          ELSE IF Searching = "issues"
          THEN tool' = [tool EXCEPT
                          !.stage = "states", !.hits = n,
                          !.results = Append(@, HeaderLine("issues", n))]
          ELSE tool' = Proceed([tool EXCEPT
                                  !.outcomes = Append(@, done),
                                  !.results = @ \o <<HeaderLine(Searching, n),
                                                     ListLine(Searching, n)>>])
  /\ UNCHANGED <<pagination, server, concurrent, assigned, http>>

\* The scope's search rejects: the block's catch pushes the error line and
\* the handler goes on.
SearchRejects ==
  /\ tool.name = "searchLinear" /\ tool.stage = "search"
  /\ \E e \in Failures :
       tool' = Proceed([tool EXCEPT
                          !.outcomes = Append(@, [scope |-> Searching,
                                                  outcome |-> e, hits |-> 0]),
                          !.results = Append(@, ErrorLine(Searching, e))])
  /\ UNCHANGED <<pagination, server, concurrent, assigned, http>>

\* The issues' states resolve: the list of issues is pushed.
IssueStatesResolve ==
  /\ tool.name = "searchLinear" /\ tool.stage = "states"
  /\ tool' = Proceed([tool EXCEPT
                        !.outcomes = Append(@, [scope |-> "issues",
                                                outcome |-> "resolved",
                                                hits |-> tool.hits]),
                        !.results = Append(@, ListLine("issues", tool.hits))])
  /\ UNCHANGED <<pagination, server, concurrent, assigned, http>>

\* Fetching an issue's state rejects: the same catch, after the header.
IssueStatesReject ==
  /\ tool.name = "searchLinear" /\ tool.stage = "states"
  /\ \E e \in Failures :
       tool' = Proceed([tool EXCEPT
                          !.outcomes = Append(@, [scope |-> "issues",
                                                  outcome |-> e,
                                                  hits |-> tool.hits]),
                          !.results = Append(@, ErrorLine("issues", e))])
  /\ UNCHANGED <<pagination, server, concurrent, assigned, http>>

SearchNext ==
  \/ SearchLinearCall
  \/ SearchResolves
  \/ SearchRejects
  \/ IssueStatesResolve
  \/ IssueStatesReject

\* searchLinear under every outcome of its searches.
SearchSpec == Init /\ [][SearchNext]_vars

\* ------------------------------------------------- HTTP mode: SSE sessions
\* transport.sessionId, a fresh identifier for every SSEServerTransport.
SessionId(k) == "session-" \o ToString(k)

\* Names every plain object inherits from Object.prototype; each of them is
\* a function or an object, so truthy.
ObjectPrototype == {"constructor", "__proto__", "toString"}

\* req.query.sessionId: a session's identifier, another identifier, a
\* name of Object.prototype, or nothing (the key "undefined").
QuerySessionIds ==
  {SessionId(k) : k \in 1..MaxSessions}
    \cup {"no-such-session", Undefined} \cup ObjectPrototype

\* transports[sessionId] on the plain object `transports`: an own property,
\* else what the prototype chain holds under that name, else undefined.
Lookup(object, key) ==
  IF key \in DOMAIN object
  THEN [kind |-> "transport", sessionId |-> object[key].sessionId]
  ELSE IF key \in ObjectPrototype
  THEN [kind |-> "inherited", name |-> key]
  ELSE [kind |-> "undefined"]

\* `if (transport)`
Truthy(value) == value.kind # "undefined"

\* The sessions whose connection is open.
OpenSessions == connections.opened \ connections.closed

\* GET /sse: a transport is created on the response and stored under its
\* session id; the close handler is installed; the server is connected.
GetSse ==
  /\ Cardinality(connections.opened) < MaxSessions
  /\ LET id == SessionId(Cardinality(connections.opened) + 1) IN
     /\ transports' = [k \in DOMAIN transports \cup {id} |->
                         IF k = id THEN [sessionId |-> id, res |-> id]
                         ELSE transports[k]]
     /\ connections' = [connections EXCEPT !.opened = @ \cup {id}]
  /\ UNCHANGED <<pagination, server, concurrent, assigned, tool, post>>

\* res.on("close"): delete transports[transport.sessionId]
Close ==
  /\ \E id \in OpenSessions :
       /\ transports' = [k \in DOMAIN transports \ {id} |-> transports[k]]
       /\ connections' = [connections EXCEPT !.closed = @ \cup {id}]
  /\ UNCHANGED <<pagination, server, concurrent, assigned, tool, post>>

\* What becomes of a request whose async handler threw: express 4 leaves
\* the rejection unhandled and the request unanswered, express 5 passes it
\* to the error handler.
HandlerThrew == {"unanswered", "500"}

\* POST /messages?sessionId=...
PostMessages ==
  /\ \E sessionId \in QuerySessionIds :
       LET transport == Lookup(transports, sessionId)
           asked == [sessionId |-> sessionId, open |-> OpenSessions]
       IN
       IF Truthy(transport)
       THEN IF transport.kind = "transport"
            THEN post' = [request |-> asked, status |-> "handled",
                          delivered |-> {transport.sessionId}]
            ELSE \E outcome \in HandlerThrew :
                   post' = [request |-> asked, status |-> outcome,
                            delivered |-> {}]
       ELSE post' = [request |-> asked, status |-> "400",
                     delivered |-> {}]
  /\ UNCHANGED <<pagination, server, concurrent, assigned, tool,
                 transports, connections>>

HttpNext ==
  \/ GetSse
  \/ Close
  \/ PostMessages

\* The HTTP mode under every interleaving of its three events.
HttpSpec == Init /\ [][HttpNext]_vars

\* ================================================================ claims
\* The pages a call has received so far, by the position of their request.
NumAnswered(c) ==
  IF c.done \/ inflight = <<>> THEN Len(c.requests) ELSE Len(c.requests) - 1

PageAt(c, i) == backend[c.requests[i].after]

\* The page carries hasNextPage = true and a cursor to go on from.
SaysMore(page) ==
  /\ page.pageInfo # NoPageInfo
  /\ page.pageInfo.hasNextPage
  /\ page.pageInfo.endCursor \in Cursors

\* nextPage() has returned to the owner a page it fetched.
NextPageFetched ==
  call.op = "nextPage" /\ call.done /\ call.requests # <<>>

RECURSIVE NodesUpTo(_, _)
\* The nodes of the first k pages of a call, page after page.
NodesUpTo(c, k) ==
  IF k = 0 THEN <<>> ELSE NodesUpTo(c, k - 1) \o PageAt(c, k).nodes

\* C1: a page with fewer than `first` nodes makes hasMore false whatever
\* its pageInfo says; fetchAll() sends no request after such a page, so a
\* full page followed by a short one that still reports hasNextPage = true
\* gives exactly 2 requests and the items of these 2 pages.
C1_ShortPageStops ==
  /\ (NextPageFetched /\ Len(call.value.nodes) < first) => ~hasMore
  /\ call.op = "fetchAll" =>
       /\ \A i \in 1..NumAnswered(call) :
            Len(PageAt(call, i).nodes) < first
              => i = Len(call.requests) /\ ~hasMore
       /\ ( /\ call.done /\ Fresh(call) /\ Len(call.requests) >= 2
            /\ Len(PageAt(call, 1).nodes) = first
            /\ Len(PageAt(call, 2).nodes) < first )
          => /\ Len(call.requests) = 2
             /\ Len(call.value) = first + Len(PageAt(call, 2).nodes)

\* C1's case: a full page, then a non-empty short page that reports more.
C1_Witness ==
  /\ call.op = "fetchAll" /\ call.done /\ Fresh(call)
  /\ Len(call.requests) = 2
  /\ Len(PageAt(call, 1).nodes) = first
  /\ Len(PageAt(call, 2).nodes) \in 1..(first - 1)
  /\ SaysMore(PageAt(call, 2))
  /\ Len(call.value) = first + Len(PageAt(call, 2).nodes)
  /\ ~hasMore

\* C2: nextPage() called while hasMore is false returns an empty page,
\* issues no request and leaves currentCursor and hasMore as they were.
C2_ExhaustedNextPageIsNoOp ==
  call.op = "nextPage" /\ ~call.pre.hasMore =>
    /\ call.done
    /\ call.value.nodes = <<>>
    /\ call.requests = <<>>
    /\ inflight = <<>>
    /\ pc = "idle"
    /\ currentCursor = call.pre.currentCursor
    /\ hasMore = call.pre.hasMore

\* C2's case: nextPage() on a Paginator exhausted in mid-sequence.
C2_Witness ==
  /\ call.op = "nextPage" /\ call.done /\ ~call.pre.hasMore
  /\ call.pre.currentCursor \in Cursors
  /\ call.value = EmptyPage

\* C3: a fetched page without pageInfo, with hasNextPage false or without
\* an endCursor makes hasMore false, however many nodes it has.
C3_NoNextPageStops ==
  ( /\ NextPageFetched
    /\ \/ call.value.pageInfo = NoPageInfo
       \/ ~call.value.pageInfo.hasNextPage
       \/ call.value.pageInfo.endCursor \notin Cursors )
  => ~hasMore

\* C3's case: a full page that reports hasNextPage = true but no cursor.
C3_Witness ==
  /\ NextPageFetched
  /\ Len(call.value.nodes) >= first
  /\ call.value.pageInfo # NoPageInfo
  /\ call.value.pageInfo.hasNextPage
  /\ call.value.pageInfo.endCursor = Null
  /\ ~hasMore

\* C4 as claimed: the cursor advances exactly when the page says more and
\* is not short, and stays whenever the call sets hasMore to false.
C4_CursorAdvancesOnlyWhenGoingOn ==
  NextPageFetched =>
    /\ currentCursor =
         IF SaysMore(call.value) /\ Len(call.value.nodes) >= first
         THEN call.value.pageInfo.endCursor
         ELSE call.pre.currentCursor
    /\ (~hasMore => currentCursor = call.pre.currentCursor)

\* C4, amended: the cursor advances to the page's endCursor exactly when the
\* page has pageInfo with hasNextPage true and a non-empty endCursor,
\* whatever its nodes count (a short page advances it and ends the
\* traversal); otherwise hasMore becomes false and the cursor stays.
C4_CursorFollowsPageInfo ==
  NextPageFetched =>
    IF SaysMore(call.value)
    THEN /\ currentCursor = call.value.pageInfo.endCursor
         /\ hasMore = (Len(call.value.nodes) >= first)
    ELSE /\ currentCursor = call.pre.currentCursor
         /\ ~hasMore

\* C4's case: a short page that says more moved the cursor and ended the
\* traversal.
C4_Witness ==
  /\ NextPageFetched
  /\ SaysMore(call.value)
  /\ Len(call.value.nodes) < first
  /\ call.value.pageInfo.endCursor # call.pre.currentCursor
  /\ currentCursor = call.value.pageInfo.endCursor
  /\ ~hasMore

\* C5: fetchAll() on a Paginator just constructed or reset returns the
\* nodes of the pages it fetched, page after page in fetch order, and
\* returns only with hasMore false.
C5_FetchAllConcatenates ==
  call.op = "fetchAll" /\ Fresh(call) =>
    /\ (~call.done => allNodes = NodesUpTo(call, NumAnswered(call)))
    /\ (call.done =>
         /\ call.value = NodesUpTo(call, Len(call.requests))
         /\ ~hasMore)

\* C5's case: three pages with nodes, returned in order.
C5_Witness ==
  /\ call.op = "fetchAll" /\ Fresh(call) /\ call.done
  /\ Len(call.requests) = 3
  /\ \A i \in 1..3 : PageAt(call, i).nodes # <<>>
  /\ call.requests[2].after # call.requests[3].after
  /\ call.value = NodesUpTo(call, 3)

\* C6: fetchAll() returns on every backend. The backend is deterministic,
\* so a call that sends a request it has sent before receives the page it
\* received before, is back in the state it was in and never returns: a
\* call that returns sends no request twice.
C6_FetchAllReturns ==
  call.op = "fetchAll" =>
    \A i, j \in 1..Len(call.requests) :
      i # j => call.requests[i] # call.requests[j]

\* The page ends a traversal with page size f.
Terminating(page, f) == Len(page.nodes) < f \/ ~SaysMore(page)

\* C7, what fetchAll() has done so far: one request per page, the first
\* from where the Paginator stood and each next one from the cursor of the
\* page before; no request after a terminating page; no return before one
\* (unless the Paginator was exhausted beforehand).
C7_RequestsUpToFirstTerminatingPage ==
  call.op = "fetchAll" =>
    /\ \A i \in 1..NumAnswered(call) :
         Terminating(PageAt(call, i), first) => i = Len(call.requests)
    /\ \A i \in 1..Len(call.requests) :
         call.requests[i] =
           [first |-> first,
            after |-> IF i = 1 THEN call.pre.currentCursor
                      ELSE PageAt(call, i - 1).pageInfo.endCursor]
    /\ call.done =>
         IF call.pre.hasMore
         THEN /\ call.requests # <<>>
              /\ Terminating(PageAt(call, Len(call.requests)), first)
         ELSE call.requests = <<>>

\* fetchAll() has received a terminating page and has not returned yet.
C7_TerminatingPageReceived ==
  /\ call.op = "fetchAll" /\ ~call.done
  /\ NumAnswered(call) = Len(call.requests) /\ call.requests # <<>>
  /\ Terminating(PageAt(call, Len(call.requests)), first)

\* C7: fetchAll() issues one request for each page up to and including the
\* first terminating page, none after it, and then returns; it never stops
\* before the first terminating page.
C7_FetchAllStopsAtFirstTerminatingPage ==
  /\ []C7_RequestsUpToFirstTerminatingPage
  /\ (C7_TerminatingPageReceived ~> (call.op = "fetchAll" /\ call.done))

\* C7's case: two pages that go on, then a full page with hasNextPage false.
C7_Witness ==
  /\ call.op = "fetchAll" /\ call.done /\ Fresh(call)
  /\ Len(call.requests) = 3
  /\ Len(PageAt(call, 3).nodes) = first
  /\ PageAt(call, 3).pageInfo # NoPageInfo
  /\ ~PageAt(call, 3).pageInfo.hasNextPage
  /\ Len(call.value) = 3 * first

\* C8: every fetchAll() on the Paginator just constructed or reset issues
\* the requests and returns the items of the first such call.
C8_ResetThenFetchAllRepeats ==
  ( /\ call.op = "fetchAll" /\ call.done /\ Fresh(call)
    /\ runs["fetchAll"] # <<>> )
  => /\ call.requests = runs["fetchAll"][1].requests
     /\ call.value = runs["fetchAll"][1].items

\* C8's case: fetchAll() after construction, reset(), fetchAll() again, over
\* more than one page.
C8_Witness ==
  /\ runs["fetchAll"] # <<>>
  /\ runs["fetchAll"][1].entry = "constructor"
  /\ call.op = "fetchAll" /\ call.done /\ call.entry = "reset"
  /\ Len(call.requests) >= 2
  /\ call.value # <<>>
  /\ call.value = runs["fetchAll"][1].items

\* C9: reset() leaves the Paginator as constructed (cursor undefined,
\* hasMore true, page size and fetch operation as they were) and issues no
\* request.
C9_ResetRestoresInitialState ==
  call.op = "reset" =>
    /\ call.done /\ pc = "idle"
    /\ currentCursor = Undefined
    /\ hasMore = TRUE
    /\ first = call.pre.first
    /\ fetchPage = call.pre.fetchPage
    /\ call.requests = <<>>
    /\ inflight = <<>>

\* C9's case: reset() on a Paginator exhausted in mid-sequence.
C9_Witness ==
  /\ call.op = "reset" /\ call.done
  /\ call.pre.currentCursor \in Cursors
  /\ ~call.pre.hasMore
  /\ currentCursor = Undefined /\ hasMore

\* A completed call of one loop from the beginning agrees with the record
\* of the other loop.
AgreesWith(other) ==
  runs[other] # <<>> =>
    /\ call.pre.first = runs[other][1].first
    /\ call.requests = runs[other][1].requests
    /\ call.value = runs[other][1].items

\* C10: fetchAllPages(fetch, {first}) and fetchAll() on a Paginator(fetch,
\* first) just constructed or reset issue the same requests and return the
\* same items.
C10_FetchAllPagesEqualsFetchAll ==
  /\ ( /\ call.op = "fetchAllPages" /\ call.done /\ Fresh(call)
       /\ call.pre.first = first )
     => AgreesWith("fetchAll")
  /\ (call.op = "fetchAll" /\ call.done /\ Fresh(call))
     => AgreesWith("fetchAllPages")

\* C10's case: both loops have run over the same two or more pages.
C10_Witness ==
  /\ runs["fetchAll"] # <<>>
  /\ call.op = "fetchAllPages" /\ call.done /\ Fresh(call)
  /\ call.pre.first = first
  /\ Len(call.requests) >= 2
  /\ Len(PageAt(call, Len(call.requests)).nodes) \in 1..(first - 1)
  /\ SaysMore(PageAt(call, Len(call.requests)))
  /\ call.value = runs["fetchAll"][1].items

\* C11: constructing a Paginator issues no backend request and leaves the
\* cursor undefined, hasMore true and the page size equal to the `first`
\* given, or 50 when none is given.
C11_ConstructionIsQuiet ==
  call.op = "constructor" =>
    /\ call.done /\ pc = "idle"
    /\ call.requests = <<>> /\ inflight = <<>> /\ backend = <<>>
    /\ currentCursor = Undefined
    /\ hasMore = TRUE
    /\ first = IF call.pre.first = <<>> THEN 50 ELSE call.pre.first[1]

\* C11's case: new Paginator(fetchPage), without a page size.
C11_Witness ==
  /\ call.op = "constructor" /\ call.done
  /\ call.pre.first = <<>>
  /\ first = 50 /\ currentCursor = Undefined /\ hasMore
  /\ backend = <<>>

\* The call ended in a failure thrown to the owner.
Failed(c) == c.done /\ c.threw

\* The backend has failed the request in flight and the call has yet to
\* resume.
Rejected == pc \in {"nextPage:rejected", "fetchAll:rejected"}

\* C12, in every state: a nextPage() call made while hasMore is true issues
\* exactly one request, and a call that failed has left nothing in flight
\* and returned no items.
C12_OneRequestPerCall ==
  /\ (call.op = "nextPage" /\ call.pre.hasMore) => Len(call.requests) = 1
  /\ Failed(call) =>
       /\ call.op \in {"nextPage", "fetchAll"}
       /\ call.value \in Failures
       /\ pc = "idle" /\ inflight = <<>> /\ allNodes = <<>>
       /\ call.requests # <<>>

\* C12, in every step from a failed request: the call ends with the
\* backend's failure, sends nothing and leaves the Paginator as it was.
C12_FailurePropagates ==
  Rejected =>
    /\ call' = Thrown(call, inflight[2].failure)
    /\ inflight' = <<>>
    /\ pc' = "idle"
    /\ UNCHANGED <<paginator, backend>>

\* C12: the Paginator neither catches nor retries a backend failure: one
\* request per nextPage() call, and a failed request's failure reaches the
\* caller of nextPage() and of fetchAll() with no further request.
C12_NoCatchNoRetry ==
  /\ []C12_OneRequestPerCall
  /\ [][C12_FailurePropagates]_vars

\* C12's case: fetchAll() failed on its second request, after a page of
\* items.
C12_Witness ==
  /\ call.op = "fetchAll" /\ Failed(call)
  /\ Len(call.requests) = 2
  /\ backend[call.requests[1].after].nodes # <<>>
  /\ call.requests[2].after \notin DOMAIN backend
  /\ hasMore /\ currentCursor = call.requests[2].after

\* The server is resolving, or has resolved, a URI.
Resolving == request # NoRequest /\ request.kind = "resolve"

\* The router has invoked the read operation registered under `name`.
InvokesRead(name) ==
  /\ Len(invoked) = 1
  /\ invoked[1].op = "read"
  /\ invoked[1].name = name

\* The registrations whose template the URI matches.
Matching(uri) ==
  {i \in DOMAIN Registrations : Matches(Registrations[i].template, uri)}

\* C13: resolving U invokes the read operation of a registered template T
\* if and only if U matches T (as many segments, the literals equal, each
\* variable bound to a non-empty segment), with the variables bound by
\* position; linear://teams/abc123 invokes `team` with id = "abc123" and
\* linear://teams/abc123/states does not.
C13_InvokedIffMatches ==
  Resolving =>
    /\ \A i \in DOMAIN Registrations :
         InvokesRead(Registrations[i].name) <=> i \in Matching(request.target)
    /\ \A i \in Matching(request.target) :
         invoked[1].variables =
           Bind(Registrations[i].template, request.target)
    /\ request.target = <<"teams", "abc123">> =>
         InvokesRead("team") /\ invoked[1].variables["id"] = "abc123"
    /\ request.target = <<"teams", "abc123", "states">> => ~InvokesRead("team")

\* C14: every concrete URI matches at most one registered template.
C14_AtMostOneTemplateMatches ==
  Resolving => Cardinality(Matching(request.target)) <= 1

\* The URI obtained from a template by putting an identifier in the place
\* of each variable.
InstanceOf(template) ==
  [i \in DOMAIN template |->
     IF template[i].kind = "literal" THEN template[i].text ELSE "abc123"]

\* C15: every registration is reachable: resolving the URI that instantiates
\* its template invokes its read operation, so that linear://cycles/active
\* invokes `activeCycles` and linear://comments/recent `recentComments`.
C15_EveryRegistrationReachable ==
  Resolving =>
    /\ \A i \in DOMAIN Registrations :
         request.target = InstanceOf(Registrations[i].template)
           => InvokesRead(Registrations[i].name)
    /\ request.target = <<"cycles", "active">> => InvokesRead("activeCycles")
    /\ request.target = <<"comments", "recent">> =>
         InvokesRead("recentComments")

\* C16: resolving a URI that matches no registered template, such as a
\* `widgets` URI, fails with ResourceNotFound, invokes no operation and
\* makes no backend call.
C16_NoMatchIsResourceNotFound ==
  ( /\ Resolving
    /\ \/ Matching(request.target) = {}
       \/ request.target[1] = "widgets" )
  => /\ request.status = "ResourceNotFound"
     /\ invoked = <<>>
     /\ backendCalls = <<>>
     /\ fan = NoFanOut

\* C16's case: linear://widgets/abc123.
C16_Witness ==
  /\ Resolving
  /\ request.target = <<"widgets", "abc123">>
  /\ request.status = "ResourceNotFound"
  /\ invoked = <<>> /\ backendCalls = <<>>

\* The server is listing, or has listed, a collection.
Listing == request # NoRequest /\ request.kind = "list"

\* The registration that owns the template.
Owner(template) ==
  Registrations[CHOOSE i \in DOMAIN Registrations :
                  Registrations[i].template = template]

\* C17: listing a registration without a list capability, such as
\* linear://teams/{id}, fails with ListingUnsupported and invokes nothing;
\* listing one with a list capability, such as linear://teams, invokes that
\* registration's list operation and no other.
C17_ListNeedsCapability ==
  Listing =>
    /\ IF Owner(request.target).list
       THEN /\ request.status # "ListingUnsupported"
            /\ invoked =
                 <<Invocation("list", Owner(request.target).name, <<>>)>>
       ELSE /\ request.status = "ListingUnsupported"
            /\ invoked = <<>>
            /\ backendCalls = <<>>
            /\ fan = NoFanOut
    /\ request.target = <<L("teams"), V("id")>> =>
         request.status = "ListingUnsupported"
    /\ request.target = <<L("teams")>> =>
         invoked = <<Invocation("list", "teams", <<>>)>>

\* C17's case: linear://teams/{id} was asked to list.
C17_Witness ==
  /\ Listing
  /\ request.target = <<L("teams"), V("id")>>
  /\ request.status = "ListingUnsupported"
  /\ invoked = <<>> /\ backendCalls = <<>>

\* The cycles the backend served for team t: its first page.
Served(t) ==
  {<<t, j>> : j \in 1..(IF fan.cyclesOf[t] < 50 THEN fan.cyclesOf[t] ELSE 50)}

\* The cycle a descriptor stands for.
CycleOf(descriptor) == descriptor.uri.id

\* C18: the `cycles` list operation sends one listCycles call per team, all
\* of them before any is answered, and whatever the order they complete in,
\* its listing holds the teams' results in team order, each team's cycles in
\* page order: 6 descriptors for 3 teams of 2 cycles.
C18_FanOutInTeamOrder ==
  /\ fan.phase \in {"cycles", "done"} =>
       /\ Len(backendCalls) = 1 + fan.teams
       /\ backendCalls[1].method = "listTeams"
       /\ \A t \in 1..fan.teams :
            /\ backendCalls[1 + t].method = "listCycles"
            /\ backendCalls[1 + t].team = t
  /\ fan.phase = "done" =>
       LET listing == request.resources IN
       /\ {CycleOf(listing[p]) : p \in DOMAIN listing} =
            UNION {Served(t) : t \in 1..fan.teams}
       /\ \A p, q \in DOMAIN listing :
            p < q =>
              \/ CycleOf(listing[p])[1] < CycleOf(listing[q])[1]
              \/ /\ CycleOf(listing[p])[1] = CycleOf(listing[q])[1]
                 /\ CycleOf(listing[p])[2] < CycleOf(listing[q])[2]
       /\ \A p \in DOMAIN listing : listing[p].team = CycleOf(listing[p])[1]
       /\ (fan.teams = 3 /\ \A t \in 1..3 : fan.cyclesOf[t] = 2) =>
            [p \in 1..Len(listing) |-> CycleOf(listing[p])] =
              <<<<1, 1>>, <<1, 2>>, <<2, 1>>, <<2, 2>>, <<3, 1>>, <<3, 2>>>>

\* C18's case: 3 teams of 2 cycles, answered in the order 3, 1, 2.
C18_Witness ==
  /\ fan.phase = "done"
  /\ fan.teams = 3
  /\ fan.completed = <<3, 1, 2>>
  /\ \A t \in 1..3 : fan.cyclesOf[t] = 2
  /\ Len(request.resources) = 6
  /\ CycleOf(request.resources[1]) = <<1, 1>>
  /\ CycleOf(request.resources[6]) = <<3, 2>>

\* C19: the `cycles` listing holds exactly one descriptor for every cycle
\* of every team, also for a team with more cycles than one backend page.
C19_ListingIsComplete ==
  fan.phase = "done" =>
    LET listing == request.resources IN
    /\ {CycleOf(listing[p]) : p \in DOMAIN listing} =
         UNION {{<<t, j>> : j \in 1..fan.cyclesOf[t]} : t \in 1..fan.teams}
    /\ \A p, q \in DOMAIN listing :
         p # q => CycleOf(listing[p]) # CycleOf(listing[q])

\* C20: with calls made one at a time, every request carries the
\* Paginator's page size and, as `after`, the endCursor of the page received
\* before it since construction or the last reset; the first carries none.
C20_CursorThreading ==
  pc \in {"nextPage:await", "fetchAll:await"} =>
    /\ inflight =
         <<Request(first, IF lastEnd = NoPageYet THEN Undefined ELSE lastEnd)>>
    /\ call.requests[Len(call.requests)] = inflight[1]

\* C20's case: the third request of a traversal, after pages ending in c1
\* and c2.
C20_Witness ==
  /\ pc = "nextPage:await"
  /\ {Undefined, "c1"} \subseteq DOMAIN backend
  /\ EndCursorOf(backend[Undefined]) = "c1"
  /\ EndCursorOf(backend["c1"]) = "c2"
  /\ lastEnd = "c2"
  /\ inflight = <<Request(first, "c2")>>

\* C21, in every step: while hasMore is false no request goes out and the
\* backend is not asked anything; hasMore becomes true again in a reset()
\* alone; hasNextPage() returns hasMore, changes nothing of the Paginator
\* and sends nothing.
C21_Step ==
  /\ ~hasMore =>
       /\ inflight = <<>> /\ inflight' = <<>>
       /\ backend' = backend
       /\ hasMore' => (call'.op = "reset" /\ call' # call)
  /\ (call'.op = "hasNextPage" /\ call' # call) =>
       /\ UNCHANGED <<paginator, backend, inflight, pc, allNodes>>
       /\ call'.requests = <<>>
       /\ call'.value = hasMore

\* C21: hasMore is monotone between resets: once false it stays false under
\* nextPage(), hasNextPage() and fetchAll(), which then send no request;
\* only reset() makes it true again, and hasNextPage() changes no state.
C21_HasMoreMonotone == [][C21_Step]_vars

\* C21's case: nextPage() and then hasNextPage() on a Paginator exhausted in
\* mid-sequence: nothing was sent and hasMore is still false.
C21_Witness ==
  /\ call.op = "hasNextPage" /\ call.done
  /\ call.pre.currentCursor \in Cursors
  /\ ~call.pre.hasMore /\ call.value = FALSE
  /\ ~hasMore /\ currentCursor = call.pre.currentCursor
  /\ inflight = <<>>

\* C22, in every state: after a nextPage() whose request failed, the cursor,
\* the flag and the page size are the ones the call found.
C22_StateKept ==
  (call.op = "nextPage" /\ Failed(call)) =>
    /\ currentCursor = call.pre.currentCursor
    /\ hasMore = call.pre.hasMore /\ hasMore
    /\ first = call.pre.first

\* C22, in every step: the nextPage() call that follows a failed one sends
\* the request the failed one sent.
C22_Reissues ==
  ( /\ call.op = "nextPage" /\ Failed(call)
    /\ call'.op = "nextPage" /\ call' # call )
  => /\ call'.requests = call.requests
     /\ inflight' = <<Request(first, call.pre.currentCursor)>>

\* C22: a failed backend request leaves the Paginator's state unchanged:
\* currentCursor and hasMore keep their pre-call values, so that the next
\* nextPage() call re-issues a request with the same `after` cursor.
C22_FailedRequestLeavesState ==
  /\ []C22_StateKept
  /\ [][C22_Reissues]_vars

\* C22's case: nextPage() failed in mid-sequence, on a cursor the backend
\* has never answered.
C22_Witness ==
  /\ call.op = "nextPage" /\ Failed(call)
  /\ call.pre.currentCursor \in Cursors
  /\ call.requests = <<Request(first, currentCursor)>>
  /\ currentCursor \notin DOMAIN backend
  /\ currentCursor = call.pre.currentCursor /\ hasMore

RECURSIVE StateAfter(_, _)
\* The cursor and flag of a Paginator that started at the beginning and has
\* received the pages of the first k of the requests `reqs`.
StateAfter(reqs, k) ==
  IF k = 0 THEN [currentCursor |-> Undefined, hasMore |-> TRUE]
  ELSE LET before == StateAfter(reqs, k - 1)
       IN NextPageUpdate(before.currentCursor, before.hasMore, first,
                         backend[reqs[k].after])

RECURSIVE NodesOfPages(_, _)
\* The nodes of the pages the first k of the requests `reqs` are answered
\* with, page after page.
NodesOfPages(reqs, k) ==
  IF k = 0 THEN <<>>
  ELSE NodesOfPages(reqs, k - 1) \o backend[reqs[k].after].nodes

\* The numbers k of pages after which a traversal from the beginning, with
\* the requests of the recorded fetchAll(), stands where call c began.
TakenBefore(c) ==
  {k \in 0..Len(runs["fetchAll"][1].requests) :
     StateAfter(runs["fetchAll"][1].requests, k) =
       [currentCursor |-> c.pre.currentCursor, hasMore |-> c.pre.hasMore]}

\* C23: fetchAll() on a Paginator that has taken k pages returns the items
\* of the pages after the k-th, which it requests one by one (nothing, with
\* no request, if the Paginator is exhausted): the nodes of the k pages
\* followed by its result are the result of fetchAll() from the beginning
\* on the same backend.
C23_FetchAllReturnsTheRest ==
  ( /\ call.op = "fetchAll" /\ call.done /\ call.entry = "used"
    /\ runs["fetchAll"] # <<>> )
  => LET whole == runs["fetchAll"][1] IN
     /\ call.value = NodesUpTo(call, Len(call.requests))
     /\ ~call.pre.hasMore => (call.value = <<>> /\ call.requests = <<>>)
     /\ TakenBefore(call) # {}
     /\ \A k \in TakenBefore(call) :
          /\ call.requests = SubSeq(whole.requests, k + 1, Len(whole.requests))
          /\ NodesOfPages(whole.requests, k) \o call.value = whole.items

\* C23's case: after fetchAll() from the beginning and reset(), one page was
\* taken with nextPage() and fetchAll() returned the items of the rest.
C23_Witness ==
  /\ call.op = "fetchAll" /\ call.done /\ call.entry = "used"
  /\ runs["fetchAll"] # <<>>
  /\ call.pre.hasMore
  /\ TakenBefore(call) = {1}
  /\ NodesOfPages(runs["fetchAll"][1].requests, 1) # <<>>
  /\ Len(call.requests) = 2
  /\ call.value # <<>>
  /\ Len(runs["fetchAll"][1].items) > Len(call.value)

\* The primary query of the call has failed.
PrimaryFailed == assigned.primary \notin {Undefined, "resolved"}

\* C24: getIssuesAssignedToUser sends the raw query first; it sends the SDK
\* filter query only once the raw query has failed, never when it succeeded
\* and at most once, with the same first, after and assignee / team / state
\* filter; the failure is logged; a fallback that fails too fails the call
\* with its own error.
C24_FallbackOnlyOnFailure ==
  assigned.pc # "idle" =>
    LET o == assigned.options IN
    /\ assigned.sent[1].api = "rawRequest"
    /\ Len(assigned.sent) = IF PrimaryFailed THEN 2 ELSE 1
    /\ assigned.primary = "resolved" =>
         /\ assigned.pc = "returned"
         /\ assigned.fallback = Undefined
         /\ assigned.log = <<>>
    /\ assigned.primary = Undefined => (assigned.pc = "primary" /\ assigned.log = <<>>)
    /\ PrimaryFailed =>
         /\ assigned.sent[2].api = "issues"
         /\ assigned.sent[2].first = assigned.sent[1].first
         /\ assigned.sent[2].after = assigned.sent[1].after
         /\ assigned.sent[2].filter = assigned.sent[1].filter
         /\ assigned.sent[2].filter.assignee = assigned.userId
         /\ assigned.sent[2].filter.notCanceled = ~o.includeArchived
         /\ Len(assigned.log) = 1
         /\ assigned.log[1].error = assigned.primary
         /\ assigned.pc \in {"fallback", "returned", "thrown"}
    /\ assigned.pc = "thrown" <=> assigned.fallback \in Failures
    /\ assigned.pc = "thrown" => assigned.value = assigned.fallback

\* C24's case: both queries failed, for a team and with archived issues
\* left out; the call failed with the fallback's error.
C24_Witness ==
  /\ assigned.pc = "thrown"
  /\ assigned.primary = "BackendError: timeout"
  /\ assigned.fallback = "BackendError: malformed response"
  /\ assigned.value = assigned.fallback
  /\ assigned.options.teamId = "team1"
  /\ ~assigned.options.includeArchived
  /\ assigned.sent[2].filter.team = "team1"
  /\ assigned.sent[2].filter.notCanceled
  /\ Len(assigned.log) = 1

\* The `cycles` fan-out is past its listTeams call.
FannedOut == fan.phase \in {"cycles", "done", "read", "failed"}

\* C25: in the `cycles` list and read fan-out, a failure of listTeams or of
\* one team's listCycles fails the whole operation with that error as the
\* backend gave it: nothing of the other teams' cycles is returned, and every
\* backend call is made once.
C25_FanOutFailsWhole ==
  /\ FannedOut =>
       /\ (fan.failure # <<>>) <=> (request.status = "failed")
       /\ Len(backendCalls) = 1 + fan.teams
       /\ \A i, j \in DOMAIN backendCalls :
            i # j => backendCalls[i] # backendCalls[j]
  /\ (request # NoRequest /\ request.status = "failed") =>
       /\ fan.phase = "failed"
       /\ request.error = fan.failure[1].error
       /\ fan.failure[1].call \in {backendCalls[i] : i \in DOMAIN backendCalls}
       /\ request.resources = <<>>
       /\ request.contents = <<>>

\* C25's case: of 3 teams, two had answered with their cycles when the
\* third team's listCycles call failed, and the listing failed with it.
C25_Witness ==
  /\ request # NoRequest /\ request.status = "failed"
  /\ request.kind = "list"
  /\ fan.teams = 3
  /\ Len(fan.completed) = 2
  /\ \A i \in 1..2 : fan.results[fan.completed[i]] # <<>>
  /\ fan.failure[1].call.method = "listCycles"
  /\ request.error = "BackendError: timeout"
  /\ request.resources = <<>>

\* C26: registration order does not affect dispatch: under every other
\* order of the registrations createServer makes, resolving the URI invokes
\* the read operation it invokes now (or none, if it invokes none).
C26_OrderDoesNotAffectDispatch ==
  Resolving =>
    \A table \in Reorderings :
      LET i == FirstMatch(table, request.target) IN
      IF i = 0 THEN invoked = <<>> ELSE InvokesRead(table[i].name)

\* Two nextPage() calls overlap: each has sent its request and neither
\* response has been applied.
BothInFlight ==
  /\ call.op = "nextPage" /\ pc = "nextPage:await"
  /\ concurrent.op = "nextPage" /\ ~concurrent.done

FailedUpdates == {k \in DOMAIN tool.settled : tool.settled[k].outcome \in Failures}

\* C28: addIssuesToCycle reports "Added N issues to the cycle" only when all
\* N updates have succeeded; as soon as one update fails, whichever they
\* complete in, the result is an isError result with the message of the
\* first failure.
C28_AddedOnlyIfAllSucceeded ==
  tool.name = "addIssuesToCycle" =>
    LET n == Len(tool.issueIds) IN
    /\ Len(tool.sent) = n
    /\ tool.result # <<>> =>
         IF tool.result[1].isError
         THEN /\ FailedUpdates # {}
              /\ \E k \in FailedUpdates :
                   /\ \A j \in FailedUpdates : k <= j
                   /\ tool.result[1].content[1].text =
                        [prefix |-> "Error: ",
                         message |-> tool.settled[k].outcome]
         ELSE /\ Len(tool.settled) = n
              /\ Outcomes(tool) \subseteq {"resolved"}
              /\ tool.result[1].content[1].text =
                   [added |-> n, to |-> "the cycle"]
    /\ FailedUpdates # {} => (tool.result # <<>> /\ tool.result[1].isError)
    /\ (Len(tool.settled) = n /\ FailedUpdates = {}) =>
         (tool.result # <<>> /\ ~tool.result[1].isError)

\* C28's case: of 3 updates the first to settle succeeded, the second
\* failed, and the third succeeded after the error result was out.
C28_Witness ==
  /\ tool.name = "addIssuesToCycle"
  /\ Len(tool.issueIds) = 3 /\ Len(tool.settled) = 3
  /\ tool.settled[1].outcome = "resolved"
  /\ tool.settled[2].outcome = "BackendError: timeout"
  /\ tool.settled[3].outcome = "resolved"
  /\ tool.settled[1].issue = 3
  /\ tool.result = <<ToolResult(ErrorText("BackendError: timeout"), TRUE)>>

\* The lines a finished block has contributed to the results.
LinesOf(o) ==
  IF o.outcome \in Failures
  THEN (IF o.scope = "issues" /\ o.hits > 0
        THEN <<HeaderLine("issues", o.hits)>> ELSE <<>>)
       \o <<ErrorLine(o.scope, o.outcome)>>
  ELSE IF o.hits = 0 THEN <<>>
  ELSE <<HeaderLine(o.scope, o.hits), ListLine(o.scope, o.hits)>>

\* C29: in searchLinear a failing scope does not abort the others: the
\* scopes selected are all searched, in the order issues, projects, users,
\* each once; the result holds, block after block, the results of the scopes
\* that succeeded and an error line for each that failed, and is not marked
\* isError.
C29_FailingScopeDoesNotAbort ==
  tool.name = "searchLinear" =>
    LET selected == Searches(tool.scope) IN
    /\ Len(tool.calls) = tool.at
    /\ \A k \in DOMAIN tool.calls :
         tool.calls[k] = ScopeCall(selected[k], tool.query, tool.first)
    /\ [k \in DOMAIN tool.outcomes |-> tool.outcomes[k].scope] =
         SubSeq(selected, 1, Len(tool.outcomes))
    /\ tool.results = Flat([k \in DOMAIN tool.outcomes |->
                              LinesOf(tool.outcomes[k])])
                      \o (IF tool.stage = "states"
                          THEN <<HeaderLine("issues", tool.hits)>> ELSE <<>>)
    /\ tool.result # <<>> =>
         /\ Len(tool.outcomes) = Len(selected)
         /\ tool.at = Len(selected)
         /\ ~tool.result[1].isError
         /\ \A k \in DOMAIN tool.outcomes :
              tool.outcomes[k].outcome \in Failures =>
                /\ tool.results # <<>>
                /\ tool.result[1].content[1].text = Joined(tool.results)
                /\ \E j \in DOMAIN tool.results :
                     tool.results[j] = ErrorLine(tool.outcomes[k].scope,
                                                 tool.outcomes[k].outcome)

\* C29's case: scope all, the issues search failed, projects and users were
\* searched after it and their results are in the result with the error
\* line in front.
C29_Witness ==
  /\ tool.name = "searchLinear" /\ tool.scope = "all"
  /\ tool.result # <<>> /\ ~tool.result[1].isError
  /\ Len(tool.outcomes) = 3
  /\ tool.outcomes[1].outcome = "BackendError: timeout"
  /\ tool.outcomes[2].outcome = "resolved" /\ tool.outcomes[2].hits = 2
  /\ tool.outcomes[3].outcome = "resolved" /\ tool.outcomes[3].hits = 1
  /\ tool.result[1].content[1].text =
       Joined(<<ErrorLine("issues", "BackendError: timeout"),
                HeaderLine("projects", 2), ListLine("projects", 2),
                HeaderLine("users", 1), ListLine("users", 1)>>)

\* C30: the session table holds exactly the SSE connections opened and not
\* yet closed; a POST whose sessionId is not in the table is answered with
\* status 400 and delivered to no transport, and a POST for an open session
\* is delivered only to that session's own transport.
C30_PostReachesOnlyItsOpenSession ==
  /\ DOMAIN transports = OpenSessions
  /\ \A id \in DOMAIN transports : transports[id].sessionId = id
  /\ post # NoPost =>
       IF post.request.sessionId \in post.request.open
       THEN post.delivered = {post.request.sessionId}
       ELSE post.status = "400" /\ post.delivered = {}
====
